---- MODULE Spec2Model ----
(***************************************************************************)
(* Model of the reconciliation engine of refresharr                        *)
(* (src/internal/arr/cleanup.go): the bounded worker pools of              *)
(* CleanupMissingFilesForSeries / CleanupMissingFilesForMovies, the        *)
(* per-item reconcilers cleanupSeries / cleanupMovie, and the aggregator.  *)
(* The backend (Client), the filesystem probe (FileChecker) and the        *)
(* cancellation signal (context) are the environment.                      *)
(***************************************************************************)
EXTENDS Integers, Sequences, FiniteSets, TLC

(***************************************************************************)
(* Bounds of the model.                                                    *)
(***************************************************************************)
MaxItems == 2        \* items (series or movies) a work list may hold
MaxEpisodes == 5     \* episodes one series may have
MaxLimit == 4        \* largest configured concurrency limit
MaxFaults == 1       \* disturbances per run: injected failures and the cancellation
MaxWork == 4         \* file-claiming episodes (or movies) in one work list
MaxClock == 0        \* seconds the clock may advance during a run
MaxSymlinks == 2     \* broken symlinks under the root folders
MaxRuns == 2         \* runs of one service instance, one after the other
MaxAppenders == 3    \* goroutines appending to the registry at the same time
MaxRaw == 3          \* entries appended to the registry before a report is built
MaxTick == 1         \* seconds between the first and the last processing time
MaxFileID == 2       \* largest file-record ID of a raw entry
FirstSecond == 9     \* seconds field of the first processing time

Items == 1..MaxItems
EpIdx == 1..MaxEpisodes

(***************************************************************************)
(* Error texts.  A text is a sequence of characters so that the            *)
(* "not found" classification is computed as the code computes it.         *)
(***************************************************************************)
UpperCase == <<"A","B","C","D","E","F","G","H","I","J","K","L","M",
               "N","O","P","Q","R","S","T","U","V","W","X","Y","Z">>
LowerCase == <<"a","b","c","d","e","f","g","h","i","j","k","l","m",
               "n","o","p","q","r","s","t","u","v","w","x","y","z">>

ToLower(s) ==
    [k \in 1..Len(s) |->
        IF \E u \in 1..Len(UpperCase) : UpperCase[u] = s[k]
        THEN LowerCase[CHOOSE u \in 1..Len(UpperCase) : UpperCase[u] = s[k]]
        ELSE s[k]]

Contains(s, sub) ==
    \E k \in 0..(Len(s) - Len(sub)) : SubSeq(s, k + 1, k + Len(sub)) = sub

NotFoundText == <<"n","o","t"," ","f","o","u","n","d">>

\* "episode file %d not found" / "movie file %d not found": the clients' text
\* for an HTTP 404 on a file record.
ErrRecordNotFound == <<"f","i","l","e"," ","n","o","t"," ","f","o","u","n","d">>
\* a transport-level text carrying the HTTP status line
ErrHTTPNotFound == <<"4","0","4"," ","N","o","t"," ","F","o","u","n","d">>
ErrStatus == <<"s","t","a","t","u","s",":"," ","5","0","0">>
ErrTimeout == <<"t","i","m","e","o","u","t">>

FetchFaults == {ErrHTTPNotFound, ErrStatus, ErrTimeout}

\* a faulty variant: the text is not lowered before the search
IsNotFoundLowerOnly(err) == Contains(err, NotFoundText)

\* strings.Contains(strings.ToLower(err.Error()), "not found")
IsNotFound(err) == Contains(ToLower(err), NotFoundText)

(***************************************************************************)
(* CleanupStats and its merge.                                             *)
(***************************************************************************)
ZeroStats == [checked |-> 0, missing |-> 0, deleted |-> 0, errors |-> 0]

\* a faulty variant: the merged stats are overwritten, not added to
AddStatsOverwrite(a, b) == b

\* a faulty variant: the errors of the merged stats are left out
AddStatsWithoutErrors(a, b) ==
    [checked |-> a.checked + b.checked,
     missing |-> a.missing + b.missing,
     deleted |-> a.deleted + b.deleted,
     errors  |-> a.errors]

AddStats(a, b) ==
    [checked |-> a.checked + b.checked,
     missing |-> a.missing + b.missing,
     deleted |-> a.deleted + b.deleted,
     errors  |-> a.errors + b.errors]

\* a faulty variant: the first argument, whatever the second
MinNoCap(a, b) == a

min(a, b) == IF a < b THEN a ELSE b

EpisodeCap == 3


\* episodeConcurrency := min(s.concurrentLimit, 3)
episodeConcurrency(limit) == min(limit, EpisodeCap)

\* a faulty variant: a channel with one slot too many
CanAcquireOffByOne(held, capacity) == held <= capacity

\* a send on a buffered channel of the given capacity used as a semaphore
CanAcquire(held, capacity) == held < capacity

\* a faulty variant: the deferred receive from the semaphore is forgotten
ReleaseForgotten(held) == held

\* the deferred "<-semaphore": one token leaves the channel
Release(held) == held - 1

\* a faulty variant: a result channel that holds one result only
CanSendOne(queue, capacity) == Len(queue) < 1

\* a send on a buffered channel proceeds only while the buffer has room
CanSend(queue, capacity) == Len(queue) < capacity

(***************************************************************************)
(* The backend and filesystem snapshot.                                    *)
(***************************************************************************)
NoFile == 0          \* a nil EpisodeFileID / MovieFileID

\* what the backend and the disk hold for the j-th episode of a series
KindPattern == <<"missing", "present", "nofile", "missing", "nopath">>
EpisodeKind(j) == KindPattern[((j - 1) % Len(KindPattern)) + 1]
MovieKinds == {"missing", "present", "nofile", "nopath"}

ClaimingEpisodes(n) == {j \in 1..n : EpisodeKind(j) # "nofile"}

VARIABLES
    clientName,        \* s.client.GetName(): "sonarr" or "radarr"
    dryRun,            \* s.dryRun
    concurrentLimit,   \* s.concurrentLimit
    addMissingMovies,  \* s.addMissingMovies
    entry,             \* "all": CleanupMissingFiles, "ids": ...ForSeries/ForMovies
    workList,          \* seriesIDs / movieIDs
    episodeCount,      \* backend: number of episodes of every series
    movieKind,         \* backend: what each movie holds
    files,             \* backend: IDs of the file records it holds
    collection,        \* backend: external IDs (TMDB / TVDB) in the collection
    rootFolders,       \* backend: the configured root folders
    links,             \* disk: the kinds of the broken symlinks, in walk order
    brokenLinks,       \* disk: the broken symlinks not removed yet
    sym,               \* locals of handleBrokenSymlinks[ForSeries]
    addCalls,          \* the objects handed to AddMovie / AddSeries, in order
    ctxDone,           \* the cancellation signal of ctx
    faults,            \* disturbances so far
    clock,             \* time.Now(), in seconds
    missingFiles,      \* s.missingFiles
    mainPc,            \* position of the calling goroutine
    dispatched,        \* the worker goroutines and the closer have been started
    stats, messages,   \* locals of CleanupMissingFilesFor...
    semaphore,         \* tokens in the semaphore channel
    resultsChan,       \* resultsChan
    resultsClosed,     \* close(resultsChan) happened
    itemPc,            \* position of each item worker
    itemResult,        \* the result each item worker put on resultsChan
    itemStats,         \* stats local of each cleanupSeries call
    epSemaphore,       \* tokens in each episodeSemaphore
    epResultsChan,     \* each episodeResultsChan
    epClosed,          \* close(episodeResultsChan) happened
    epPc,              \* position of each episode worker
    ret,               \* what the run returned
    finished,          \* stats handed to progressReporter.Finish, in order
    earlier,           \* what the earlier runs of this service instance returned
    report,            \* the report built from the registry by buildReport
    missingFilesMu,    \* s.missingFilesMu: 0 when unlocked, else its holder
    appender,          \* the concurrent calls of addMissingFileEntry
    log                \* calls issued to the backend, the filesystem and the sink

cfgVars == <<clientName, dryRun, concurrentLimit, addMissingMovies, entry,
             workList, episodeCount, movieKind, rootFolders, links, earlier>>
symVars == <<collection, brokenLinks, sym, addCalls>>
mainVars == <<mainPc, dispatched, stats, messages, ret, finished>>
poolVars == <<semaphore, resultsChan, resultsClosed, itemPc, itemResult>>
epVars == <<itemStats, epSemaphore, epResultsChan, epClosed, epPc>>
envVars == <<files, ctxDone, faults, clock>>
regVars == <<report, missingFilesMu, appender>>
vars == <<cfgVars, mainVars, poolVars, epVars, envVars, symVars, missingFiles,
         regVars, log>>

Workers == 1..Len(workList)

EpisodeFileID(s, j) == IF EpisodeKind(j) = "nofile" THEN NoFile ELSE 10 * s + j

\* GetEpisodesForSeries(seriesID)
Episodes(s) ==
    [j \in 1..episodeCount |->
        [id |-> 10 * s + j, seriesID |-> s,
         hasFile |-> EpisodeKind(j) # "nofile",
         fileID |-> EpisodeFileID(s, j)]]

\* GetMovie(movieID)
Movie(m) ==
    [id |-> m, tmdbID |-> m,
     hasFile |-> movieKind[m] # "nofile",
     fileID |-> IF movieKind[m] = "nofile" THEN NoFile ELSE m]

FileKind(f) == IF clientName = "sonarr" THEN EpisodeKind(f % 10) ELSE movieKind[f]

\* the Path field of the file record f
PathOfFile(f) == IF FileKind(f) = "nopath" THEN << >> ELSE <<"/media/", ToString(f)>>

AllFileIDs ==
    IF clientName = "sonarr"
    THEN {EpisodeFileID(s, j) : s \in Items, j \in 1..MaxEpisodes} \ {NoFile}
    ELSE Items

\* the regular files on disk
Disk == {PathOfFile(f) : f \in {g \in AllFileIDs : FileKind(g) = "present"}}

\* faulty variants: a probe that finds nothing, a probe that finds everything
FileExistsIgnored(path) == FALSE
FileExistsAlways(path) == TRUE

\* FileSystemChecker.FileExists
FileExists(path) == path # << >> /\ path \in Disk

\* context.Canceled
Canceled == "canceled"

\* ctx.Err()
CtxErr == IF ctxDone THEN Canceled ELSE "nil"

\* a faulty variant: success whatever was counted
SuccessAlways(st) == TRUE

\* Success: stats.Errors == 0
Success(st) == st.errors = 0


(***************************************************************************)
(* Broken symlinks: paths (sequences of characters), the catalog tag.      *)
(***************************************************************************)
TestTMDBID == 705      \* external ID of the entries of the deduplication test
QualityProfileID == 12

Root1 == <<"/", "m">>
Root2 == <<"/", "t">>
RootFolderLists == {<< >>, <<Root1>>, <<Root1, Root2>>}

TagTMDB == <<"[", "t", "m", "d", "b", "-">>
TagTVDB == <<"[", "t", "v", "d", "b", "-">>

DigitChars == <<"0", "1", "2", "3", "4", "5", "6", "7", "8", "9">>
IsDigit(c) == \E d \in 1..Len(DigitChars) : DigitChars[d] = c
DigitValue(c) == (CHOOSE d \in 1..Len(DigitChars) : DigitChars[d] = c) - 1

\* the length of the run of digits of path that starts at position p
RECURSIVE DigitRun(_, _)
DigitRun(path, p) ==
    IF p <= Len(path) /\ IsDigit(path[p]) THEN 1 + DigitRun(path, p + 1) ELSE 0

\* strconv.Atoi on a run of digits
RECURSIVE Atoi(_)
Atoi(digits) ==
    IF digits = << >> THEN 0
    ELSE 10 * Atoi(SubSeq(digits, 1, Len(digits) - 1))
         + DigitValue(digits[Len(digits)])

\* a faulty variant: the expression accepts the tag of either catalog
TagOfAnyCatalogMatchesAt(path, tag, p) ==
    \E t \in {TagTMDB, TagTVDB} :
        /\ p + Len(t) - 1 <= Len(path)
        /\ SubSeq(path, p, p + Len(t) - 1) = t
        /\ LET n == DigitRun(path, p + Len(t)) IN
           /\ n >= 1
           /\ p + Len(t) + n <= Len(path)
           /\ path[p + Len(t) + n] = "]"

\* the regular expression \[tmdb-(\d+)\] (or tvdb) matches at position p
TagMatchesAt(path, tag, p) ==
    /\ p + Len(tag) - 1 <= Len(path)
    /\ SubSeq(path, p, p + Len(tag) - 1) = tag
    /\ LET n == DigitRun(path, p + Len(tag)) IN
       /\ n >= 1
       /\ p + Len(tag) + n <= Len(path)
       /\ path[p + Len(tag) + n] = "]"

\* the leftmost position from p on where the expression matches, 0 if none
RECURSIVE FirstMatch(_, _, _)
FirstMatch(path, tag, p) ==
    IF p > Len(path) THEN 0
    ELSE IF TagMatchesAt(path, tag, p) THEN p
    ELSE FirstMatch(path, tag, p + 1)

\* models.ParseTMDBIDFromPath / ParseTVDBIDFromPath: the leftmost match
ParseIDFromPath(path, tag) ==
    LET p == FirstMatch(path, tag, 1)
        n == DigitRun(path, p + Len(tag))
    IN  IF p = 0
        THEN [ok |-> FALSE, id |-> 0]
        ELSE [ok |-> TRUE,
              id |-> Atoi(SubSeq(path, p + Len(tag), p + Len(tag) + n - 1))]

\* strings.HasPrefix
HasPrefix(path, prefix) ==
    Len(prefix) <= Len(path) /\ SubSeq(path, 1, Len(prefix)) = prefix

LinkKinds == {"foreign", "existing", "new"}

\* the tag this client parses, and the other catalog's
OwnTag(client) == IF client = "radarr" THEN TagTMDB ELSE TagTVDB
OtherTag(client) == IF client = "radarr" THEN TagTVDB ELSE TagTMDB

\* the catalog tag in the file name of a broken symlink of the given kind
LinkName(client, kind) ==
    CASE kind = "foreign"  -> OtherTag(client) \o <<"4", "2", "]">>
      [] kind = "existing" -> OwnTag(client) \o <<"1", "]">>
      [] kind = "new"      -> OwnTag(client) \o <<"4", "2", "]">>

\* the path of the k-th broken symlink: under the last root folder
LinkPathIn(client, roots, kinds, k) ==
    roots[Len(roots)] \o <<"/", ToString(k)>> \o LinkName(client, kinds[k])
        \o <<".", "m", "k", "v">>


(***************************************************************************)
(* Inputs of a run.                                                        *)
(***************************************************************************)
\* work lists up to renaming of the IDs: a new ID is the next unused one
Canonical(w) ==
    \A k \in 1..Len(w) :
        \/ \E h \in 1..(k - 1) : w[h] = w[k]
        \/ w[k] = Cardinality({w[h] : h \in 1..(k - 1)}) + 1

WorkLists ==
    {w \in UNION {[1..n -> Items] : n \in 0..MaxItems} : Canonical(w)}

\* what GetAllSeries / GetAllMovies can return: distinct IDs
Inventories == {[k \in 1..n |-> k] : n \in 0..MaxItems}

RECURSIVE WorkOf(_, _, _)
WorkOf(client, count, w) ==
    IF w = << >> THEN 0
    ELSE (IF client = "sonarr"
          THEN Cardinality(ClaimingEpisodes(count))
          ELSE 1)
         + WorkOf(client, count, Tail(w))

InList(w, x) == \E k \in 1..Len(w) : w[k] = x

\* serial, two at a time, and a limit above the episode cap
ConcurrencyLimits == {1, 2, MaxLimit}

NotReturned ==
    [returned |-> FALSE, nilResult |-> TRUE, stats |-> ZeroStats,
     messages |-> << >>, success |-> FALSE, err |-> "nil", ctxErr |-> "nil"]

\* a worker that has not sent its result
NoResult == [stats |-> ZeroStats, err |-> "none"]

\* the locals of handleBrokenSymlinks before the phase starts
NoSymlinks ==
    [stats |-> ZeroStats, found |-> << >>, scanIdx |-> 0, linkIdx |-> 0,
     parsed |-> [ok |-> FALSE, id |-> 0]]

\* the goroutines that may call addMissingFileEntry at the same time
Appenders == 1..MaxAppenders

\* a goroutine outside addMissingFileEntry
NoAppend == [pc |-> "idle", args |-> << >>, slice |-> << >>]

\* sync.Mutex: Lock returns only while no goroutine holds the mutex
MutexFreeAlways(mu) == TRUE
MutexFree(mu) == mu = 0

\* no report has been built
NoReport == [built |-> FALSE]

\* the service as constructed, the snapshot and the arguments of the call
InitConfig ==
    /\ clientName \in {"sonarr", "radarr"}
    /\ dryRun \in BOOLEAN
    /\ concurrentLimit \in ConcurrencyLimits
    /\ addMissingMovies \in BOOLEAN
    /\ rootFolders \in RootFolderLists
    /\ links \in UNION {[1..n -> LinkKinds] : n \in 0..MaxSymlinks}
    /\ rootFolders = << >> => links = << >>
    /\ (\A k \in 1..Len(links) : links[k] # "new") => ~addMissingMovies
    /\ entry \in {"all", "ids"}
    /\ workList \in (IF entry = "all" THEN Inventories ELSE WorkLists)
    /\ episodeCount \in 0..MaxEpisodes
    /\ movieKind \in [Items -> MovieKinds]
    /\ \A x \in Items :
          /\ clientName = "sonarr" => movieKind[x] = "nofile"
          /\ ~InList(workList, x) => movieKind[x] = "nofile"
    /\ clientName = "radarr" => episodeCount = 0
    /\ workList = << >> => episodeCount = 0
    /\ WorkOf(clientName, episodeCount, workList) + 2 * Len(links) <= MaxWork
    /\ rootFolders # <<Root1>> => WorkOf(clientName, episodeCount, workList) <= 1
    /\ links # << >> =>
          /\ WorkOf(clientName, episodeCount, workList) <= 1
          /\ concurrentLimit = 1
    /\ entry = "all" => WorkOf(clientName, episodeCount, workList) <= 2
    /\ collection = Items
    /\ brokenLinks = {LinkPathIn(clientName, rootFolders, links, k) : k \in 1..Len(links)}
    /\ sym = NoSymlinks
    /\ addCalls = << >>
    /\ files = IF clientName = "sonarr"
               THEN {EpisodeFileID(x, j) : x \in Items, j \in 1..MaxEpisodes} \ {NoFile}
               ELSE {x \in Items : movieKind[x] # "nofile"}
    /\ ctxDone = FALSE
    /\ clock = 0
    /\ missingFiles = << >>
    /\ mainPc = IF entry = "all" THEN "start" ELSE "symlinks"
    /\ dispatched = FALSE
    /\ stats = ZeroStats
    /\ messages = << >>
    /\ semaphore = 0
    /\ resultsChan = << >>
    /\ resultsClosed = FALSE
    /\ itemPc = [i \in Items |-> "none"]
    /\ itemResult = [i \in Items |-> NoResult]
    /\ itemStats = [i \in Items |-> ZeroStats]
    /\ epSemaphore = [i \in Items |-> 0]
    /\ epResultsChan = [i \in Items |-> << >>]
    /\ epClosed = [i \in Items |-> FALSE]
    /\ epPc = [i \in Items |-> [j \in EpIdx |-> "none"]]
    /\ ret = NotReturned
    /\ finished = << >>
    /\ earlier = << >>
    /\ report = NoReport
    /\ missingFilesMu = 0
    /\ appender = [a \in Appenders |-> NoAppend]
    /\ log = {}

Init == InitConfig /\ faults = 0

\* a backend and a filesystem that never fail, a context never cancelled
InitRerun == InitConfig /\ faults = MaxFaults

(***************************************************************************)
(* Helpers of the actions.                                                 *)
(***************************************************************************)
\* a call issued by the item worker w (0: the main goroutine) and its
\* episode worker e (0: none), with its argument and whether it succeeded
Call(op, w, e, arg, ok) ==
    [op |-> op, w |-> w, e |-> e, arg |-> arg, ok |-> ok, err |-> << >>]

\* a call that returned the error text err
FailedCall(op, w, e, arg, err) ==
    [op |-> op, w |-> w, e |-> e, arg |-> arg, ok |-> FALSE, err |-> err]

CanFail == faults < MaxFaults

Result(st, err) == [stats |-> st, err |-> err]

Checked == [ZeroStats EXCEPT !.checked = 1]
CheckedError == [ZeroStats EXCEPT !.checked = 1, !.errors = 1]
\* a faulty variant: the missing file is recorded but not counted
MissingUncounted == [ZeroStats EXCEPT !.checked = 1]

CheckedMissing == [ZeroStats EXCEPT !.checked = 1, !.missing = 1]

\* a faulty variant: a record whose delete call failed counts as deleted
FailedDeleteCounted ==
    [ZeroStats EXCEPT !.checked = 1, !.missing = 1, !.deleted = 1, !.errors = 1]

CheckedMissingError == [ZeroStats EXCEPT !.checked = 1, !.missing = 1, !.errors = 1]
CheckedMissingDeleted == [ZeroStats EXCEPT !.checked = 1, !.missing = 1, !.deleted = 1]

\* the outcomes of GetEpisodeFile(f) / GetMovieFile(f)
FileOutcomes(f) ==
    (IF f \in files
     THEN {[ok |-> TRUE, err |-> << >>, fault |-> FALSE]}
     ELSE {[ok |-> FALSE, err |-> ErrRecordNotFound, fault |-> FALSE]})
    \cup (IF CanFail
          THEN {[ok |-> FALSE, err |-> e, fault |-> TRUE] : e \in FetchFaults}
          ELSE {})

\* the outcomes of DeleteEpisodeFile(f) / DeleteMovieFile(f)
DeleteOutcomes(f) ==
    (IF f \in files
     THEN {[ok |-> TRUE, fault |-> FALSE]}
     ELSE {[ok |-> FALSE, fault |-> FALSE]})
    \cup (IF CanFail THEN {[ok |-> FALSE, fault |-> TRUE]} ELSE {})

Bump(o) == IF o.fault THEN faults + 1 ELSE faults

\* a faulty variant: the dry-run test is missing
MayDeleteAlways == TRUE

\* the "if s.dryRun { ... return }" in front of every delete
MayDelete == ~dryRun

\* ctx is cancelled by the caller, at any moment
Cancel ==
    /\ ~ctxDone
    /\ CanFail
    /\ faults' = faults + 1
    /\ ctxDone' = TRUE
    /\ UNCHANGED <<cfgVars, regVars, symVars, mainVars, poolVars, epVars,
                   files, clock, missingFiles, log>>


(***************************************************************************)
(* CleanupMissingFiles: connection test and inventory listing.             *)
(***************************************************************************)
\* a faulty variant: a result is returned along with the error
ReturnedNeverNil(nilResult, st, msgs, success, err) ==
    [returned |-> TRUE, nilResult |-> FALSE, stats |-> st,
     messages |-> msgs, success |-> success, err |-> err,
     ctxErr |-> CtxErr]

\* "return result, err"; ctxErr is ctx.Err() at that moment
Returned(nilResult, st, msgs, success, err) ==
    [returned |-> TRUE, nilResult |-> nilResult, stats |-> st,
     messages |-> msgs, success |-> success, err |-> err,
     ctxErr |-> CtxErr]

\* s.client.TestConnection(ctx)
TestConnection ==
    /\ mainPc = "start"
    /\ \/ /\ log' = log \cup {Call("TestConnection", 0, 0, 0, TRUE)}
          /\ mainPc' = "list"
          /\ UNCHANGED <<ret, faults>>
       \/ /\ CanFail
          /\ faults' = faults + 1
          /\ log' = log \cup {Call("TestConnection", 0, 0, 0, FALSE)}
          /\ mainPc' = "done"
          /\ ret' = Returned(TRUE, ZeroStats, << >>, FALSE, "error")
    /\ UNCHANGED <<cfgVars, regVars, symVars, dispatched, stats, messages,
                   finished, poolVars, epVars, files, ctxDone, clock,
                   missingFiles>>

\* s.client.GetAllSeries(ctx) / GetAllMovies(ctx); the listing is workList
ListInventory ==
    /\ mainPc = "list"
    /\ \/ /\ CanFail
          /\ faults' = faults + 1
          /\ log' = log \cup {Call("GetAll", 0, 0, 0, FALSE)}
          /\ mainPc' = "done"
          /\ ret' = Returned(TRUE, ZeroStats, << >>, FALSE, "error")
       \/ /\ log' = log \cup {Call("GetAll", 0, 0, 0, TRUE)}
          /\ UNCHANGED faults
          /\ IF Len(workList) = 0
             THEN /\ mainPc' = "done"
                  /\ ret' = Returned(FALSE, ZeroStats, << >>, TRUE, "nil")
             ELSE /\ mainPc' = "symlinks"
                  /\ UNCHANGED ret
    /\ UNCHANGED <<cfgVars, regVars, symVars, dispatched, stats, messages,
                   finished, poolVars, epVars, files, ctxDone, clock,
                   missingFiles>>

(***************************************************************************)
(* CleanupMissingFilesForSeries / ForMovies: the worker pool.              *)
(***************************************************************************)
\* the "go func" loop and the closer goroutine
Dispatch ==
    /\ mainPc = "dispatch"
    /\ itemPc' = [i \in Items |-> IF i \in Workers THEN "acquire" ELSE "none"]
    /\ dispatched' = TRUE
    /\ mainPc' = "collect"
    /\ UNCHANGED <<cfgVars, regVars, symVars, stats, messages, ret, finished,
                   semaphore, resultsChan, itemResult, resultsClosed, epVars, envVars,
                   missingFiles, log>>

\* faulty variants: the comparison never, or always, succeeds
IsCtxErrNever(err) == FALSE
IsCtxErrAlways(err) == TRUE

\* "result.err == ctx.Err()", evaluated for a non-nil result.err
IsCtxErr(err) == err = CtxErr

\* a faulty variant: the workers never look at the signal
SeesCancelNever == FALSE

\* select { case <-ctx.Done(): ... default: }
SeesCancel == ctxDone

\* resultsChan <- result, then the deferred <-semaphore and wg.Done()
SendItem(i, st, err) ==
    /\ CanSend(resultsChan, Len(workList))
    /\ resultsChan' = Append(resultsChan, Result(st, err))
    /\ itemResult' = [itemResult EXCEPT ![i] = Result(st, err)]
    /\ semaphore' = Release(semaphore)
    /\ itemPc' = [itemPc EXCEPT ![i] = "done"]

\* semaphore <- struct{}{}, the select on ctx.Done(), StartSeries / StartMovie
ItemStart(i) ==
    /\ i \in Workers
    /\ itemPc[i] = "acquire"
    /\ CanAcquire(semaphore, concurrentLimit)
    /\ IF SeesCancel
       THEN /\ CanSend(resultsChan, Len(workList))
            /\ resultsChan' = Append(resultsChan, Result(ZeroStats, CtxErr))
            /\ itemResult' = [itemResult EXCEPT ![i] = Result(ZeroStats, CtxErr)]
            /\ itemPc' = [itemPc EXCEPT ![i] = "done"]
            /\ UNCHANGED <<semaphore, log>>
       ELSE /\ semaphore' = semaphore + 1
            /\ itemPc' = [itemPc EXCEPT ![i] = "fetch"]
            /\ log' = log \cup {Call("StartItem", i, 0, workList[i], TRUE)}
            /\ UNCHANGED <<resultsChan, itemResult>>
    /\ UNCHANGED <<cfgVars, regVars, symVars, mainVars, resultsClosed, epVars,
                   envVars, missingFiles>>

\* go func() { wg.Wait(); close(resultsChan) }()
CloseResults ==
    /\ dispatched
    /\ ~resultsClosed
    /\ \A i \in Workers : itemPc[i] = "done"
    /\ resultsClosed' = TRUE
    /\ UNCHANGED <<cfgVars, regVars, symVars, mainVars, semaphore, resultsChan, itemResult,
                   itemPc, epVars, envVars, missingFiles, log>>

\* one iteration of "for result := range resultsChan"
Collect ==
    /\ mainPc = "collect"
    /\ resultsChan # << >>
    /\ LET r == Head(resultsChan) IN
       /\ resultsChan' = Tail(resultsChan)
       /\ IF r.err # "nil"
          THEN IF IsCtxErr(r.err)
               THEN /\ mainPc' = "done"
                    /\ ret' = Returned(FALSE, stats, messages, FALSE, r.err)
                    /\ UNCHANGED <<stats, messages, log>>
               ELSE /\ stats' = [stats EXCEPT !.errors = @ + 1]
                    /\ messages' = Append(messages, "item-error")
                    /\ log' = log \cup {Call("ReportError", 0, 0, Len(messages) + 1, TRUE)}
                    /\ UNCHANGED <<mainPc, ret>>
          ELSE /\ stats' = AddStats(stats, r.stats)
               /\ UNCHANGED <<mainPc, ret, messages, log>>
    /\ UNCHANGED <<cfgVars, regVars, symVars, dispatched, finished, semaphore,
                   resultsClosed, itemPc, itemResult, epVars, envVars,
                   missingFiles>>

\* a faulty variant: the run goes on to the refresh without Finish
CollectDoneWithoutFinish ==
    /\ mainPc = "collect"
    /\ resultsChan = << >>
    /\ resultsClosed
    /\ mainPc' = "refresh"
    /\ UNCHANGED <<cfgVars, regVars, symVars, dispatched, stats, messages, ret,
                   finished, poolVars, epVars, envVars, missingFiles, log>>

\* the range loop ends: the channel is closed and drained
CollectDone ==
    /\ mainPc = "collect"
    /\ resultsChan = << >>
    /\ resultsClosed
    /\ mainPc' = "finish"
    /\ UNCHANGED <<cfgVars, regVars, symVars, dispatched, stats, messages, ret,
                   finished, poolVars, epVars, envVars, missingFiles, log>>

\* s.progressReporter.Finish(stats)
Finish ==
    /\ mainPc = "finish"
    /\ finished' = Append(finished, stats)
    /\ mainPc' = "refresh"
    /\ UNCHANGED <<cfgVars, regVars, symVars, dispatched, stats, messages, ret,
                   poolVars, epVars, envVars, missingFiles, log>>

NeedsRefreshAnyRun(st) == ~dryRun

\* if stats.DeletedRecords > 0 && !s.dryRun
NeedsRefresh(st) == st.deleted > 0 /\ ~dryRun

\* a faulty variant: the failed refresh is counted as an error
StatsCountingRefreshFailure(st) == [st EXCEPT !.errors = @ + 1]

\* the stats after TriggerRefresh failed: the branch logs a warning and
\* appends a message, and leaves the stats as they are
StatsAfterRefreshFailure(st) == st

\* the optional TriggerRefresh and the final return
Refresh ==
    /\ mainPc = "refresh"
    /\ mainPc' = "done"
    /\ IF NeedsRefresh(stats)
       THEN \/ /\ log' = log \cup {Call("TriggerRefresh", 0, 0, 0, TRUE)}
               /\ UNCHANGED <<messages, faults>>
               /\ ret' = Returned(FALSE, stats, messages, Success(stats), "nil")
            \/ /\ CanFail
               /\ faults' = faults + 1
               /\ log' = log \cup {Call("TriggerRefresh", 0, 0, 0, FALSE)}
               /\ messages' = Append(messages, "refresh-failed")
               /\ LET st == StatsAfterRefreshFailure(stats) IN
                  ret' = Returned(FALSE, st, messages', Success(st), "nil")
       ELSE /\ UNCHANGED <<log, messages, faults>>
            /\ ret' = Returned(FALSE, stats, messages, Success(stats), "nil")
    /\ UNCHANGED <<cfgVars, regVars, symVars, dispatched, stats, finished,
                   poolVars, epVars, files, ctxDone, clock, missingFiles>>


(***************************************************************************)
(* The registry of missing files.                                          *)
(***************************************************************************)
MissingFileEntry(mediaType, path, fileID, at, added, tmdbID, tvdbID) ==
    [mediaType |-> mediaType, filePath |-> path, fileID |-> fileID,
     processedAt |-> at, addedToCollection |-> added,
     tmdbID |-> tmdbID, tvdbID |-> tvdbID]

\* time.Now().Format(time.RFC3339): the text of the second t.  Within one
\* minute and one zone only the two digits of the seconds field differ, so
\* the text is modelled by these two digits.
FormatRFC3339(t) ==
    <<DigitChars[((t \div 10) % 10) + 1], DigitChars[(t % 10) + 1]>>

\* time.Now() read at some moment not before the previous reading, then
\* s.addMissingFileEntry(entry)
AddMissingFileEntry(mediaType, path, fileID, added, tmdbID, tvdbID) ==
    \E t \in clock..MaxClock :
        /\ clock' = t
        /\ missingFiles' = Append(missingFiles,
               MissingFileEntry(mediaType, path, fileID, FormatRFC3339(t),
                                added, tmdbID, tvdbID))

(***************************************************************************)
(* cleanupMovie, run by the item worker i of a radarr run.  An action is   *)
(* the code from one backend call up to the next one.                      *)
(***************************************************************************)
\* s.client.GetMovie(ctx, movieID), then the file-reference test
MovieFetch(i) ==
    /\ i \in Workers
    /\ clientName = "radarr"
    /\ itemPc[i] = "fetch"
    /\ LET movie == Movie(workList[i]) IN
       \/ /\ CanFail
          /\ faults' = faults + 1
          /\ log' = log \cup {Call("GetMovie", i, 0, workList[i], FALSE)}
          /\ SendItem(i, ZeroStats, "wrapped")
       \/ /\ log' = log \cup {Call("GetMovie", i, 0, workList[i], TRUE)}
          /\ UNCHANGED faults
          /\ IF ~movie.hasFile \/ movie.fileID = NoFile
             THEN SendItem(i, ZeroStats, "nil")
             ELSE /\ itemPc' = [itemPc EXCEPT ![i] = "getfile"]
                  /\ UNCHANGED <<resultsChan, itemResult, semaphore>>
    /\ UNCHANGED <<cfgVars, regVars, symVars, mainVars, resultsClosed, epVars,
                   files, ctxDone, clock, missingFiles>>

\* stats.TotalItemsChecked++, s.client.GetMovieFile, the "not found" and
\* empty-path tests, s.fileChecker.FileExists; when the file is absent:
\* ReportMissingFile, the registry entry and the dry-run test
MovieGetFile(i) ==
    /\ i \in Workers
    /\ clientName = "radarr"
    /\ itemPc[i] = "getfile"
    /\ LET movie == Movie(workList[i])
           f == movie.fileID
           path == PathOfFile(f) IN
       \E o \in FileOutcomes(f) :
          /\ faults' = Bump(o)
          /\ IF ~o.ok
             THEN /\ log' = log \cup {FailedCall("GetMovieFile", i, 0, f, o.err),
                                      Call(IF IsNotFound(o.err) THEN "LogInfo"
                                           ELSE "LogWarn", i, 0, f, TRUE)}
                  /\ IF IsNotFound(o.err)
                     THEN SendItem(i, Checked, "nil")
                     ELSE SendItem(i, CheckedError, "nil")
                  /\ UNCHANGED <<clock, missingFiles>>
             ELSE IF path = << >>
                  THEN /\ log' = log \cup {Call("GetMovieFile", i, 0, f, TRUE)}
                       /\ SendItem(i, Checked, "nil")
                       /\ UNCHANGED <<clock, missingFiles>>
                  ELSE IF FileExists(path)
                       THEN /\ log' = log \cup {Call("GetMovieFile", i, 0, f, TRUE),
                                                Call("FileExists", i, 0, f, TRUE)}
                            /\ SendItem(i, Checked, "nil")
                            /\ UNCHANGED <<clock, missingFiles>>
                       ELSE /\ log' = log \cup {Call("GetMovieFile", i, 0, f, TRUE),
                                                Call("FileExists", i, 0, f, FALSE)}
                            /\ AddMissingFileEntry("movie", path, f, FALSE,
                                                   movie.tmdbID, 0)
                            /\ IF MayDelete
                               THEN /\ itemPc' = [itemPc EXCEPT ![i] = "delete"]
                                    /\ UNCHANGED <<resultsChan, itemResult, semaphore>>
                               ELSE SendItem(i, CheckedMissing, "nil")
    /\ UNCHANGED <<cfgVars, regVars, symVars, mainVars, resultsClosed, epVars,
                   files, ctxDone>>

\* s.client.DeleteMovieFile, then ReportError or ReportDeletedMovieRecord
MovieDelete(i) ==
    /\ i \in Workers
    /\ clientName = "radarr"
    /\ itemPc[i] = "delete"
    /\ LET f == Movie(workList[i]).fileID IN
       \E o \in DeleteOutcomes(f) :
          /\ faults' = Bump(o)
          /\ IF o.ok
             THEN /\ files' = files \ {f}
                  /\ log' = log \cup {Call("DeleteMovieFile", i, 0, f, TRUE)}
                  /\ SendItem(i, CheckedMissingDeleted, "nil")
             ELSE /\ UNCHANGED files
                  /\ log' = log \cup {Call("DeleteMovieFile", i, 0, f, FALSE),
                                      Call("ReportError", i, 0, f, TRUE)}
                  /\ SendItem(i, CheckedMissingError, "nil")
    /\ UNCHANGED <<cfgVars, regVars, symVars, mainVars, resultsClosed, epVars,
                   ctxDone, clock, missingFiles>>

(***************************************************************************)
(* cleanupSeries, run by the item worker i of a sonarr run, and its        *)
(* episode workers (i, j).                                                 *)
(***************************************************************************)
\* episodes kept by "if episode.HasFile && episode.EpisodeFileID != nil"
EpisodesWithFiles(s) ==
    {j \in 1..Len(Episodes(s)) :
        Episodes(s)[j].hasFile /\ Episodes(s)[j].fileID # NoFile}

\* s.client.GetEpisodesForSeries, the filter, and the "go func" loop
SeriesFetch(i) ==
    /\ i \in Workers
    /\ clientName = "sonarr"
    /\ itemPc[i] = "fetch"
    /\ \/ /\ CanFail
          /\ faults' = faults + 1
          /\ log' = log \cup {Call("GetEpisodesForSeries", i, 0, workList[i], FALSE)}
          /\ SendItem(i, ZeroStats, "wrapped")
          /\ UNCHANGED epPc
       \/ /\ log' = log \cup {Call("GetEpisodesForSeries", i, 0, workList[i], TRUE)}
          /\ UNCHANGED faults
          /\ IF EpisodesWithFiles(workList[i]) = {}
             THEN /\ SendItem(i, ZeroStats, "nil")
                  /\ UNCHANGED epPc
             ELSE /\ epPc' = [epPc EXCEPT ![i] =
                        [j \in EpIdx |->
                            IF j \in EpisodesWithFiles(workList[i])
                            THEN "acquire" ELSE "none"]]
                  /\ itemPc' = [itemPc EXCEPT ![i] = "collect"]
                  /\ UNCHANGED <<resultsChan, itemResult, semaphore>>
    /\ UNCHANGED <<cfgVars, regVars, symVars, mainVars, resultsClosed,
                   itemStats, epSemaphore, epResultsChan, epClosed, files,
                   ctxDone, clock, missingFiles>>

\* episodeResultsChan <- result, then the deferred <-episodeSemaphore and
\* episodeWg.Done()
SendEpisode(i, j, st, err) ==
    /\ CanSend(epResultsChan[i], Cardinality(EpisodesWithFiles(workList[i])))
    /\ epResultsChan' = [epResultsChan EXCEPT ![i] = Append(@, Result(st, err))]
    /\ epSemaphore' = [epSemaphore EXCEPT ![i] = Release(@)]
    /\ epPc' = [epPc EXCEPT ![i][j] = "done"]

\* episodeSemaphore <- struct{}{}, the select on ctx.Done(), StartEpisode
EpStart(i, j) ==
    /\ epPc[i][j] = "acquire"
    /\ CanAcquire(epSemaphore[i], episodeConcurrency(concurrentLimit))
    /\ IF SeesCancel
       THEN /\ CanSend(epResultsChan[i],
                       Cardinality(EpisodesWithFiles(workList[i])))
            /\ epResultsChan' = [epResultsChan EXCEPT ![i] =
                                    Append(@, Result(ZeroStats, CtxErr))]
            /\ epPc' = [epPc EXCEPT ![i][j] = "done"]
            /\ UNCHANGED <<epSemaphore, log>>
       ELSE /\ epSemaphore' = [epSemaphore EXCEPT ![i] = @ + 1]
            /\ epPc' = [epPc EXCEPT ![i][j] = "getfile"]
            /\ log' = log \cup {Call("StartEpisode", i, j,
                                     EpisodeFileID(workList[i], j), TRUE)}
            /\ UNCHANGED epResultsChan
    /\ UNCHANGED <<cfgVars, regVars, symVars, mainVars, poolVars, itemStats,
                   epClosed, envVars, missingFiles>>

\* s.client.GetEpisodeFile, the "not found" and empty-path tests,
\* s.fileChecker.FileExists; when the file is absent: ReportMissingFile, the
\* registry entry and the dry-run test
EpGetFile(i, j) ==
    /\ epPc[i][j] = "getfile"
    /\ LET f == EpisodeFileID(workList[i], j)
           path == PathOfFile(f) IN
       \E o \in FileOutcomes(f) :
          /\ faults' = Bump(o)
          /\ IF ~o.ok
             THEN /\ log' = log \cup {FailedCall("GetEpisodeFile", i, j, f, o.err),
                                      Call(IF IsNotFound(o.err) THEN "LogInfo"
                                           ELSE "LogWarn", i, j, f, TRUE)}
                  /\ IF IsNotFound(o.err)
                     THEN SendEpisode(i, j, Checked, "nil")
                     ELSE SendEpisode(i, j, CheckedError, "nil")
                  /\ UNCHANGED <<clock, missingFiles>>
             ELSE IF path = << >>
                  THEN /\ log' = log \cup {Call("GetEpisodeFile", i, j, f, TRUE)}
                       /\ SendEpisode(i, j, Checked, "nil")
                       /\ UNCHANGED <<clock, missingFiles>>
                  ELSE IF FileExists(path)
                       THEN /\ log' = log \cup {Call("GetEpisodeFile", i, j, f, TRUE),
                                                Call("FileExists", i, j, f, TRUE)}
                            /\ SendEpisode(i, j, Checked, "nil")
                            /\ UNCHANGED <<clock, missingFiles>>
                       ELSE /\ log' = log \cup {Call("GetEpisodeFile", i, j, f, TRUE),
                                                Call("FileExists", i, j, f, FALSE)}
                            /\ AddMissingFileEntry("series", path, f, FALSE, 0, 0)
                            /\ IF MayDelete
                               THEN /\ epPc' = [epPc EXCEPT ![i][j] = "delete"]
                                    /\ UNCHANGED <<epResultsChan, epSemaphore>>
                               ELSE SendEpisode(i, j, CheckedMissing, "nil")
    /\ UNCHANGED <<cfgVars, regVars, symVars, mainVars, poolVars, itemStats,
                   epClosed, files, ctxDone>>

\* s.client.DeleteEpisodeFile, then ReportError or ReportDeletedEpisodeRecord
EpDelete(i, j) ==
    /\ epPc[i][j] = "delete"
    /\ LET f == EpisodeFileID(workList[i], j) IN
       \E o \in DeleteOutcomes(f) :
          /\ faults' = Bump(o)
          /\ IF o.ok
             THEN /\ files' = files \ {f}
                  /\ log' = log \cup {Call("DeleteEpisodeFile", i, j, f, TRUE)}
                  /\ SendEpisode(i, j, CheckedMissingDeleted, "nil")
             ELSE /\ UNCHANGED files
                  /\ log' = log \cup {Call("DeleteEpisodeFile", i, j, f, FALSE),
                                      Call("ReportError", i, j, f, TRUE)}
                  /\ SendEpisode(i, j, CheckedMissingError, "nil")
    /\ UNCHANGED <<cfgVars, regVars, symVars, mainVars, poolVars, itemStats,
                   epClosed, ctxDone, clock, missingFiles>>

\* go func() { episodeWg.Wait(); close(episodeResultsChan) }()
EpClose(i) ==
    /\ ~epClosed[i]
    /\ \E j \in EpIdx : epPc[i][j] # "none"
    /\ \A j \in EpIdx : epPc[i][j] \in {"none", "done"}
    /\ epClosed' = [epClosed EXCEPT ![i] = TRUE]
    /\ UNCHANGED <<cfgVars, regVars, symVars, mainVars, poolVars, itemStats,
                   epSemaphore, epResultsChan, epPc, envVars, missingFiles,
                   log>>

\* one iteration of "for result := range episodeResultsChan"
SeriesCollect(i) ==
    /\ i \in Workers
    /\ itemPc[i] = "collect"
    /\ epResultsChan[i] # << >>
    /\ LET r == Head(epResultsChan[i]) IN
       /\ epResultsChan' = [epResultsChan EXCEPT ![i] = Tail(@)]
       /\ IF r.err # "nil" /\ IsCtxErr(r.err)
          THEN /\ SendItem(i, itemStats[i], r.err)
               /\ UNCHANGED itemStats
          ELSE /\ itemStats' = [itemStats EXCEPT ![i] = AddStats(@, r.stats)]
               /\ UNCHANGED <<resultsChan, itemResult, semaphore, itemPc>>
    /\ UNCHANGED <<cfgVars, regVars, symVars, mainVars, resultsClosed,
                   epSemaphore, epClosed, epPc, envVars, missingFiles, log>>

\* the range loop ends and cleanupSeries returns its stats
SeriesReturn(i) ==
    /\ i \in Workers
    /\ itemPc[i] = "collect"
    /\ epResultsChan[i] = << >>
    /\ epClosed[i]
    /\ SendItem(i, itemStats[i], "nil")
    /\ UNCHANGED <<cfgVars, regVars, symVars, mainVars, resultsClosed, epVars,
                   envVars, missingFiles, log>>

\* the broken-symlink pass (below) runs before the pool is set up
(***************************************************************************)
(* handleBrokenSymlinks / handleBrokenSymlinksForSeries, run by the main   *)
(* goroutine before the worker pool is created.                            *)
(***************************************************************************)
\* fileChecker.FindBrokenSymlinks(root, extensions): the walk visits the
\* links under root in lexical order, which is the order of their indices
FindBrokenSymlinks(root) ==
    LET all == [k \in 1..Len(links) |-> LinkPathIn(clientName, rootFolders, links, k)]
    IN SelectSeq(all, LAMBDA path :
                     path \in brokenLinks /\ HasPrefix(path, root \o <<"/">>))

\* "stats.TotalItemsChecked += ...; stats.MissingFiles += ...; stats.Errors += ..."
MergeSymlinkStats(st, sl) ==
    [st EXCEPT !.checked = @ + sl.checked,
               !.missing = @ + sl.missing,
               !.errors = @ + sl.errors]

\* handleBrokenSymlinks returns sl with a nil error
EndSymlinks(sl) ==
    /\ stats' = MergeSymlinkStats(stats, sl)
    /\ mainPc' = "dispatch"

\* a faulty variant: the loop is left after the first link
NextLinkLeavesLoop(sl) ==
    /\ EndSymlinks(sl)
    /\ sym' = [sym EXCEPT !.stats = sl]

\* the link loop moves on with the phase's stats sl
NextLink(sl) ==
    IF sym.linkIdx = Len(sym.found)
    THEN /\ EndSymlinks(sl)
         /\ sym' = [sym EXCEPT !.stats = sl]
    ELSE /\ sym' = [sym EXCEPT !.stats = sl, !.linkIdx = @ + 1]
         /\ mainPc' = "link"
         /\ UNCHANGED stats

LinkChecked(sl) == [sl EXCEPT !.checked = @ + 1]
\* a faulty variant: the symlink is counted as missing, not as checked
LinkMissingUnchecked(sl) == [sl EXCEPT !.missing = @ + 1]

LinkMissing(sl) == [sl EXCEPT !.checked = @ + 1, !.missing = @ + 1]
\* a faulty variant: the failure of a link or of a scan is not counted
LinkErrorUncounted(sl) == sl

\* "stats.Errors++; continue"
LinkError(sl) == [sl EXCEPT !.errors = @ + 1]

CurrentLink == sym.found[sym.linkIdx]
\* tmdbID / tvdbID, the local handleBrokenSymlink keeps for its later calls
CurrentID == sym.parsed

MediaType == IF clientName = "radarr" THEN "movie" ELSE "series"

\* a faulty variant: every entry of a broken symlink is flagged as added
AddSymlinkEntryAsAdded(path, id, added) ==
    AddMissingFileEntry(MediaType, path, 0, TRUE,
                        IF clientName = "radarr" THEN id ELSE 0,
                        IF clientName = "sonarr" THEN id ELSE 0)

\* the entry of a broken symlink: FileID 0, TMDBID or TVDBID set
AddSymlinkEntry(path, id, added) ==
    AddMissingFileEntry(MediaType, path, 0, added,
                        IF clientName = "radarr" THEN id ELSE 0,
                        IF clientName = "sonarr" THEN id ELSE 0)

\* s.client.GetRootFolders(ctx)
GetRootFolders ==
    /\ mainPc = "symlinks"
    /\ \/ /\ CanFail
          /\ faults' = faults + 1
          /\ log' = log \cup {Call("GetRootFolders", 0, 0, 0, FALSE)}
          /\ messages' = Append(messages, "symlink-failed")
          /\ mainPc' = "dispatch"
          /\ UNCHANGED <<stats, sym>>
       \/ /\ log' = log \cup {Call("GetRootFolders", 0, 0, 0, TRUE)}
          /\ UNCHANGED <<faults, messages>>
          /\ IF Len(rootFolders) = 0
             THEN /\ EndSymlinks(sym.stats)
                  /\ UNCHANGED sym
             ELSE /\ mainPc' = "scan"
                  /\ sym' = [sym EXCEPT !.scanIdx = 1]
                  /\ UNCHANGED stats
    /\ UNCHANGED <<cfgVars, regVars, collection, brokenLinks, addCalls,
                   dispatched, ret, finished, poolVars, epVars, files,
                   ctxDone, clock, missingFiles>>

\* one turn of "for _, folder := range rootFolders"
ScanRoot ==
    /\ mainPc = "scan"
    /\ \E ok \in {TRUE} \cup (IF CanFail THEN {FALSE} ELSE {}) :
          LET root == rootFolders[sym.scanIdx]
              found == IF ok THEN sym.found \o FindBrokenSymlinks(root) ELSE sym.found
              sl == IF ok THEN sym.stats ELSE LinkError(sym.stats)
          IN /\ faults' = IF ok THEN faults ELSE faults + 1
             /\ log' = log \cup {Call("FindBrokenSymlinks", 0, 0, sym.scanIdx, ok)}
             /\ IF sym.scanIdx < Len(rootFolders)
                THEN /\ sym' = [sym EXCEPT !.stats = sl, !.found = found,
                                           !.scanIdx = @ + 1]
                     /\ UNCHANGED <<mainPc, stats>>
                ELSE IF Len(found) = 0
                THEN /\ sym' = [sym EXCEPT !.stats = sl, !.found = found]
                     /\ EndSymlinks(sl)
                ELSE /\ sym' = [sym EXCEPT !.stats = sl, !.found = found,
                                           !.linkIdx = 1]
                     /\ mainPc' = "link"
                     /\ UNCHANGED stats
    /\ UNCHANGED <<cfgVars, regVars, collection, brokenLinks, addCalls,
                   dispatched, messages, ret, finished, poolVars, epVars,
                   files, ctxDone, clock, missingFiles>>

\* a faulty variant: the link is never deleted
MayDeleteSymlinkNever == FALSE

\* the "if !s.dryRun" in front of DeleteSymlink
MayDeleteSymlink == ~dryRun

\* handleBrokenSymlink: the ID is parsed from the path, the link is deleted
HandleLink ==
    /\ mainPc = "link"
    /\ LET parsed == ParseIDFromPath(CurrentLink, OwnTag(clientName)) IN
       IF ~parsed.ok
       THEN /\ NextLink(LinkChecked(sym.stats))
            /\ UNCHANGED <<brokenLinks, faults, log>>
       ELSE IF MayDeleteSymlink
       THEN \E ok \in {TRUE} \cup (IF CanFail THEN {FALSE} ELSE {}) :
               /\ log' = log \cup {Call("DeleteSymlink", 0, sym.linkIdx, sym.linkIdx, ok)}
               /\ IF ok
                  THEN /\ brokenLinks' = brokenLinks \ {CurrentLink}
                       /\ mainPc' = "query"
                       /\ sym' = [sym EXCEPT !.parsed = parsed]
                       /\ UNCHANGED <<faults, stats>>
                  ELSE /\ faults' = faults + 1
                       /\ NextLink(LinkError(sym.stats))
                       /\ UNCHANGED brokenLinks
       ELSE /\ mainPc' = "query"
            /\ sym' = [sym EXCEPT !.parsed = parsed]
            /\ UNCHANGED <<brokenLinks, faults, log, stats>>
    /\ UNCHANGED <<cfgVars, regVars, collection, addCalls, dispatched,
                   messages, ret, finished, poolVars, epVars, files, ctxDone,
                   clock, missingFiles>>

\* a faulty variant: the outcome of the query is ignored, the lookup follows
QueryCollectionResultIgnored ==
    /\ mainPc = "query"
    /\ log' = log \cup {Call("GetByExternalID", 0, sym.linkIdx, CurrentID.id,
                               CurrentID.id \in collection)}
    /\ mainPc' = "lookup"
    /\ UNCHANGED <<faults, sym, stats, clock, missingFiles>>
    /\ UNCHANGED <<cfgVars, regVars, collection, brokenLinks, addCalls,
                   dispatched, messages, ret, finished, poolVars, epVars,
                   files, ctxDone>>

\* s.client.GetMovieByTMDBID / GetSeriesByTVDBID: "err == nil" is "exists"
QueryCollection ==
    /\ mainPc = "query"
    /\ \/ /\ CurrentID.id \in collection
          /\ log' = log \cup {Call("GetByExternalID", 0, sym.linkIdx, CurrentID.id, TRUE)}
          /\ AddSymlinkEntry(CurrentLink, CurrentID.id, FALSE)
          /\ NextLink(LinkMissing(sym.stats))
          /\ UNCHANGED faults
       \/ /\ CurrentID.id \notin collection \/ CanFail
          /\ faults' = IF CurrentID.id \in collection THEN faults + 1 ELSE faults
          /\ log' = log \cup {Call("GetByExternalID", 0, sym.linkIdx, CurrentID.id, FALSE)}
          /\ mainPc' = "lookup"
          /\ UNCHANGED <<sym, stats, clock, missingFiles>>
    /\ UNCHANGED <<cfgVars, regVars, collection, brokenLinks, addCalls,
                   dispatched, messages, ret, finished, poolVars, epVars,
                   files, ctxDone>>

\* "for _, folder := range rootFolders { if strings.HasPrefix(...) ... }",
\* then the first folder
SelectRootFolder(path, roots) ==
    IF \E r \in 1..Len(roots) : HasPrefix(path, roots[r])
    THEN roots[CHOOSE r \in 1..Len(roots) :
                   /\ HasPrefix(path, roots[r])
                   /\ \A q \in 1..(r - 1) : ~HasPrefix(path, roots[q])]
    ELSE roots[1]

\* "if s.addMissingMovies && !s.dryRun"
MayAdd == addMissingMovies /\ ~dryRun

\* s.client.LookupMovieByTMDBID / LookupSeriesByTVDBID
Lookup ==
    /\ mainPc = "lookup"
    /\ \/ /\ CanFail
          /\ faults' = faults + 1
          /\ log' = log \cup {Call("Lookup", 0, sym.linkIdx, CurrentID.id, FALSE)}
          /\ NextLink(LinkError(sym.stats))
          /\ UNCHANGED <<clock, missingFiles>>
       \/ /\ log' = log \cup {Call("Lookup", 0, sym.linkIdx, CurrentID.id, TRUE)}
          /\ UNCHANGED faults
          /\ IF MayAdd
             THEN /\ mainPc' = "add"
                  /\ UNCHANGED <<sym, stats, clock, missingFiles>>
             ELSE /\ AddSymlinkEntry(CurrentLink, CurrentID.id, FALSE)
                  /\ NextLink(LinkMissing(sym.stats))
    /\ UNCHANGED <<cfgVars, regVars, collection, brokenLinks, addCalls,
                   dispatched, messages, ret, finished, poolVars, epVars,
                   files, ctxDone>>

\* a faulty variant: the object is handed over unmonitored
ObjectToAddUnmonitored(link, id, root) ==
    [link |-> link, id |-> id, monitored |-> FALSE,
     qualityProfileID |-> QualityProfileID, rootFolderPath |-> root]

\* movieToAdd / seriesToAdd, with the link whose handling built it
ObjectToAdd(link, id, root) ==
    [link |-> link, id |-> id, monitored |-> TRUE,
     qualityProfileID |-> QualityProfileID, rootFolderPath |-> root]

\* s.client.AddMovie(ctx, movieToAdd) / AddSeries(ctx, seriesToAdd)
Add ==
    /\ mainPc = "add"
    /\ addCalls' = Append(addCalls,
          ObjectToAdd(sym.linkIdx, CurrentID.id,
                      SelectRootFolder(CurrentLink, rootFolders)))
    /\ \/ /\ CanFail
          /\ faults' = faults + 1
          /\ log' = log \cup {Call("Add", 0, sym.linkIdx, CurrentID.id, FALSE)}
          /\ NextLink(LinkError(sym.stats))
          /\ UNCHANGED <<collection, clock, missingFiles>>
       \/ /\ log' = log \cup {Call("Add", 0, sym.linkIdx, CurrentID.id, TRUE)}
          /\ collection' = collection \cup {CurrentID.id}
          /\ AddSymlinkEntry(CurrentLink, CurrentID.id, addMissingMovies /\ ~dryRun)
          /\ NextLink(LinkMissing(sym.stats))
          /\ UNCHANGED faults
    /\ UNCHANGED <<cfgVars, regVars, brokenLinks, dispatched, messages, ret,
                   finished, poolVars, epVars, files, ctxDone>>

Next ==
    \/ Cancel
    \/ TestConnection
    \/ ListInventory
    \/ GetRootFolders
    \/ ScanRoot
    \/ HandleLink
    \/ QueryCollection
    \/ Lookup
    \/ Add
    \/ Dispatch
    \/ \E i \in Items : ItemStart(i)
    \/ \E i \in Items : MovieFetch(i)
    \/ \E i \in Items : MovieGetFile(i)
    \/ \E i \in Items : MovieDelete(i)
    \/ \E i \in Items : SeriesFetch(i)
    \/ \E i \in Items, j \in EpIdx : EpStart(i, j)
    \/ \E i \in Items, j \in EpIdx : EpGetFile(i, j)
    \/ \E i \in Items, j \in EpIdx : EpDelete(i, j)
    \/ \E i \in Items : EpClose(i)
    \/ \E i \in Items : SeriesCollect(i)
    \/ \E i \in Items : SeriesReturn(i)
    \/ CloseResults
    \/ Collect
    \/ CollectDone
    \/ Finish
    \/ Refresh

Spec == Init /\ [][Next]_vars

(***************************************************************************)
(* A second call on the same service instance.                             *)
(***************************************************************************)
\* every goroutine of the run has finished
RunOver ==
    /\ ret.returned
    /\ \A i \in Items :
          /\ itemPc[i] \in {"none", "done"}
          /\ \A j \in EpIdx : epPc[i][j] \in {"none", "done"}

\* a faulty variant: the registry is reset when a call starts
RerunWithFreshRegistry ==
    /\ RunOver
    /\ Len(earlier) < MaxRuns - 1
    /\ earlier' = Append(earlier, ret)
    /\ ctxDone' = FALSE
    /\ mainPc' = IF entry = "all" THEN "start" ELSE "symlinks"
    /\ dispatched' = FALSE
    /\ stats' = ZeroStats
    /\ messages' = << >>
    /\ sym' = NoSymlinks
    /\ semaphore' = 0
    /\ resultsChan' = << >>
    /\ resultsClosed' = FALSE
    /\ itemPc' = [i \in Items |-> "none"]
    /\ itemResult' = [i \in Items |-> NoResult]
    /\ itemStats' = [i \in Items |-> ZeroStats]
    /\ epSemaphore' = [i \in Items |-> 0]
    /\ epResultsChan' = [i \in Items |-> << >>]
    /\ epClosed' = [i \in Items |-> FALSE]
    /\ epPc' = [i \in Items |-> [j \in EpIdx |-> "none"]]
    /\ ret' = NotReturned
    /\ log' = {}
    /\ UNCHANGED <<clientName, dryRun, concurrentLimit, addMissingMovies, entry,
                   workList, episodeCount, movieKind, rootFolders, links,
                   collection, brokenLinks, addCalls, files, faults, clock,
                   finished, regVars>>
    /\ missingFiles' = << >>

\* the caller calls the same entry point again, with the same arguments and
\* a fresh context: the locals start afresh, the fields of the service
\* (s.missingFiles), the backend and the disk are as the run left them
Rerun ==
    /\ RunOver
    /\ Len(earlier) < MaxRuns - 1
    /\ earlier' = Append(earlier, ret)
    /\ ctxDone' = FALSE
    /\ mainPc' = IF entry = "all" THEN "start" ELSE "symlinks"
    /\ dispatched' = FALSE
    /\ stats' = ZeroStats
    /\ messages' = << >>
    /\ sym' = NoSymlinks
    /\ semaphore' = 0
    /\ resultsChan' = << >>
    /\ resultsClosed' = FALSE
    /\ itemPc' = [i \in Items |-> "none"]
    /\ itemResult' = [i \in Items |-> NoResult]
    /\ itemStats' = [i \in Items |-> ZeroStats]
    /\ epSemaphore' = [i \in Items |-> 0]
    /\ epResultsChan' = [i \in Items |-> << >>]
    /\ epClosed' = [i \in Items |-> FALSE]
    /\ epPc' = [i \in Items |-> [j \in EpIdx |-> "none"]]
    /\ ret' = NotReturned
    /\ log' = {}
    /\ UNCHANGED <<clientName, dryRun, concurrentLimit, addMissingMovies, entry,
                   workList, episodeCount, movieKind, rootFolders, links,
                   collection, brokenLinks, addCalls, files, faults, clock,
                   missingFiles, finished, regVars>>

NextRerun ==
    \/ Rerun
    \/ TestConnection
    \/ ListInventory
    \/ GetRootFolders
    \/ ScanRoot
    \/ HandleLink
    \/ QueryCollection
    \/ Lookup
    \/ Add
    \/ Dispatch
    \/ \E i \in Items : ItemStart(i)
    \/ \E i \in Items : MovieFetch(i)
    \/ \E i \in Items : MovieGetFile(i)
    \/ \E i \in Items : MovieDelete(i)
    \/ \E i \in Items : SeriesFetch(i)
    \/ \E i \in Items, j \in EpIdx : EpStart(i, j)
    \/ \E i \in Items, j \in EpIdx : EpGetFile(i, j)
    \/ \E i \in Items, j \in EpIdx : EpDelete(i, j)
    \/ \E i \in Items : EpClose(i)
    \/ \E i \in Items : SeriesCollect(i)
    \/ \E i \in Items : SeriesReturn(i)
    \/ CloseResults
    \/ Collect
    \/ CollectDone
    \/ Finish
    \/ Refresh

SpecRerun == InitRerun /\ [][NextRerun]_vars

(***************************************************************************)
(* Scheduling.  The Go runtime runs a runnable goroutine eventually and    *)
(* every backend or filesystem call returns, so a step of the run that     *)
(* stays possible is eventually taken.  The cancellation is the caller's   *)
(* and may never come.                                                     *)
(***************************************************************************)
RunStep ==
    \/ TestConnection
    \/ ListInventory
    \/ GetRootFolders
    \/ ScanRoot
    \/ HandleLink
    \/ QueryCollection
    \/ Lookup
    \/ Add
    \/ Dispatch
    \/ \E i \in Items : ItemStart(i)
    \/ \E i \in Items : MovieFetch(i)
    \/ \E i \in Items : MovieGetFile(i)
    \/ \E i \in Items : MovieDelete(i)
    \/ \E i \in Items : SeriesFetch(i)
    \/ \E i \in Items, j \in EpIdx : EpStart(i, j)
    \/ \E i \in Items, j \in EpIdx : EpGetFile(i, j)
    \/ \E i \in Items, j \in EpIdx : EpDelete(i, j)
    \/ \E i \in Items : EpClose(i)
    \/ \E i \in Items : SeriesCollect(i)
    \/ \E i \in Items : SeriesReturn(i)
    \/ CloseResults
    \/ Collect
    \/ CollectDone
    \/ Finish
    \/ Refresh

\* the configurations of Init, with their failures and cancellation, where
\* broken symlinks come with an empty work list and two series come with at
\* most one episode each
InitFair ==
    /\ Init
    /\ links # << >> => (Len(links) = 1 /\ workList = << >>)
    /\ Len(workList) = MaxItems => episodeCount <= 1

NextFair ==
    \/ Cancel
    \/ RunStep

SpecFair == InitFair /\ [][NextFair]_vars /\ WF_vars(RunStep)

(***************************************************************************)
(* The registry and the report built from it.                              *)
(***************************************************************************)
\* a < b on Go strings of digits: byte by byte, a proper prefix is smaller
RECURSIVE StrLess(_, _)
StrLess(a, b) ==
    IF b = << >> THEN FALSE
    ELSE IF a = << >> THEN TRUE
    ELSE IF Head(a) = Head(b) THEN StrLess(Tail(a), Tail(b))
    ELSE DigitValue(Head(a)) < DigitValue(Head(b))

\* the key under which deduplicateMissingFiles files an entry: the three
\* formats "movie-tmdb-%d", "series-tvdb-%d" and "%s-path-%s"
DedupKey(e) ==
    IF e.mediaType = "movie" /\ e.tmdbID > 0
    THEN [format |-> "movie-tmdb", mediaType |-> "movie", id |-> e.tmdbID,
          path |-> << >>]
    ELSE IF e.mediaType = "series" /\ e.tvdbID > 0
    THEN [format |-> "series-tvdb", mediaType |-> "series", id |-> e.tvdbID,
          path |-> << >>]
    ELSE [format |-> "path", mediaType |-> e.mediaType, id |-> 0,
          path |-> e.filePath]

\* variants of the choice between the entry held for a key and a new one
KeepFirst(existing, e) == existing
KeepLater(existing, e) ==
    IF StrLess(existing.processedAt, e.processedAt) THEN e ELSE existing

\* the entry kept for a key that is already in entryMap
KeepBest(existing, e) ==
    IF e.fileID > 0 /\ existing.fileID = 0 THEN e
    ELSE IF e.fileID = 0 /\ existing.fileID > 0 THEN existing
    ELSE IF StrLess(existing.processedAt, e.processedAt) THEN e
    ELSE existing

\* entryMap after the loop over entries
RECURSIVE EntryMap(_)
EntryMap(entries) ==
    IF entries = << >> THEN [k \in {} |-> k]
    ELSE LET m == EntryMap(SubSeq(entries, 1, Len(entries) - 1))
             e == entries[Len(entries)]
             key == DedupKey(e)
         IN  IF key \in DOMAIN m
             THEN [m EXCEPT ![key] = KeepBest(m[key], e)]
             ELSE [k \in DOMAIN m \cup {key} |-> IF k = key THEN e ELSE m[k]]

\* the orders in which "for _, entry := range entryMap" may append the values
MapValues(m) ==
    {d \in [1..Cardinality(DOMAIN m) -> {m[k] : k \in DOMAIN m}] :
        \A k \in DOMAIN m : \E p \in DOMAIN d : d[p] = m[k]}

Orders(d) ==
    {q \in [DOMAIN d -> {d[p] : p \in DOMAIN d}] :
        \A p \in DOMAIN d : \E r \in DOMAIN q : q[r] = d[p]}

\* variant of the sort: the slice is left as the map iteration gave it
SortSliceOmitted(d) == {d}

\* what sort.Slice by ProcessedAt may leave: the sort is not stable, so
\* entries of equal ProcessedAt end in any order
SortSlice(d) ==
    {q \in Orders(d) :
        \A p, r \in DOMAIN q :
            p < r => ~StrLess(q[r].processedAt, q[p].processedAt)}

\* the slices deduplicateMissingFiles may return
deduplicateMissingFiles(entries) ==
    UNION {SortSlice(d) : d \in MapValues(EntryMap(entries))}

\* buildReport, GeneratedAt left out
buildReport(deduplicatedFiles) ==
    [built |-> TRUE,
     runType |-> IF dryRun THEN "dry-run" ELSE "real-run",
     serviceType |-> clientName,
     totalMissing |-> Len(deduplicatedFiles),
     missingFiles |-> deduplicatedFiles]

\* the entries a reconciler or the symlink recoverer of this service may
\* append: its own media kind, the external ID of that kind or none
RawPaths == {<<"/", "a">>, <<"/", "b">>}
RawExternalIDs == {0, TestTMDBID}
RawStamps == {FormatRFC3339(t) : t \in FirstSecond..(FirstSecond + MaxTick)}
RawEntries ==
    {MissingFileEntry(MediaType, path, f, at, FALSE,
                      IF clientName = "radarr" THEN id ELSE 0,
                      IF clientName = "sonarr" THEN id ELSE 0) :
        path \in RawPaths, f \in 0..MaxFileID, at \in RawStamps,
        id \in RawExternalIDs}

\* s.addMissingFileEntry(entry)
AppendEntry ==
    /\ ~report.built
    /\ Len(missingFiles) < MaxRaw
    /\ \E e \in RawEntries : missingFiles' = Append(missingFiles, e)
    /\ UNCHANGED <<cfgVars, regVars, mainVars, poolVars, epVars, envVars,
                   symVars, log>>

\* s.buildReport(): the whole function runs with s.missingFilesMu held
BuildReport ==
    /\ ~report.built
    /\ MutexFree(missingFilesMu)
    /\ \E d \in deduplicateMissingFiles(missingFiles) :
          report' = buildReport(d)
    /\ UNCHANGED <<cfgVars, mainVars, poolVars, epVars, envVars, symVars,
                   missingFiles, missingFilesMu, appender, log>>

\* a service with nothing to reconcile: only its registry is exercised
InitRegistry ==
    /\ InitConfig
    /\ faults = 0
    /\ entry = "ids"
    /\ workList = << >>
    /\ rootFolders = << >>
    /\ concurrentLimit = 1

NextRegistry ==
    \/ AppendEntry
    \/ BuildReport

SpecRegistry == InitRegistry /\ [][NextRegistry]_vars

(***************************************************************************)
(* addMissingFileEntry called by several goroutines at once.  The append   *)
(* statement reads the slice s.missingFiles and stores the extended slice  *)
(* back; the two are separate steps of the goroutine.                      *)
(***************************************************************************)
\* the entries the concurrent callers hand over: one per path
ConcurrentEntries ==
    {e \in RawEntries :
        /\ e.fileID = 0
        /\ e.processedAt = FormatRFC3339(FirstSecond)
        /\ e.tmdbID = 0 /\ e.tvdbID = 0}

AppenderAt(a, pc) == appender[a].pc = pc

\* goroutine a calls s.addMissingFileEntry(e)
AppendCall(a) ==
    /\ AppenderAt(a, "idle")
    /\ \E e \in ConcurrentEntries :
          appender' = [appender EXCEPT ![a].pc = "lock", ![a].args = <<e>>]
    /\ UNCHANGED <<cfgVars, mainVars, poolVars, epVars, envVars, symVars,
                   missingFiles, report, missingFilesMu, log>>

\* s.missingFilesMu.Lock()
AppendLock(a) ==
    /\ AppenderAt(a, "lock")
    /\ MutexFree(missingFilesMu)
    /\ missingFilesMu' = a
    /\ appender' = [appender EXCEPT ![a].pc = "read"]
    /\ UNCHANGED <<cfgVars, mainVars, poolVars, epVars, envVars, symVars,
                   missingFiles, report, log>>

\* append(s.missingFiles, entry): the slice is read
AppendRead(a) ==
    /\ AppenderAt(a, "read")
    /\ appender' = [appender EXCEPT ![a].pc = "store",
                                    ![a].slice = missingFiles]
    /\ UNCHANGED <<cfgVars, mainVars, poolVars, epVars, envVars, symVars,
                   missingFiles, report, missingFilesMu, log>>

\* s.missingFiles = append(...): the extended slice is stored
AppendStore(a) ==
    /\ AppenderAt(a, "store")
    /\ missingFiles' = Append(appender[a].slice, appender[a].args[1])
    /\ appender' = [appender EXCEPT ![a].pc = "unlock"]
    /\ UNCHANGED <<cfgVars, mainVars, poolVars, epVars, envVars, symVars,
                   report, missingFilesMu, log>>

\* defer s.missingFilesMu.Unlock()
AppendUnlock(a) ==
    /\ AppenderAt(a, "unlock")
    /\ missingFilesMu' = 0
    /\ appender' = [appender EXCEPT ![a].pc = "returned"]
    /\ UNCHANGED <<cfgVars, mainVars, poolVars, epVars, envVars, symVars,
                   missingFiles, report, log>>

InitAppend == InitRegistry

NextAppend ==
    \/ \E a \in Appenders : AppendCall(a)
    \/ \E a \in Appenders : AppendLock(a)
    \/ \E a \in Appenders : AppendRead(a)
    \/ \E a \in Appenders : AppendStore(a)
    \/ \E a \in Appenders : AppendUnlock(a)
    \/ BuildReport

SpecAppend == InitAppend /\ [][NextAppend]_vars

(***************************************************************************)
(* Properties.                                                             *)
(***************************************************************************)
DeleteOps == {"DeleteEpisodeFile", "DeleteMovieFile"}
FetchOps == {"GetEpisodeFile", "GetMovieFile"}
MutatingOps == DeleteOps \cup {"DeleteSymlink", "Add", "TriggerRefresh"}

\* the run has returned a result (not nil)
ReturnedResult == ret.returned /\ ~ret.nilResult

\* the file records claimed by the item of worker i, each with the episode
\* worker that reconciles it (0: the movie's item worker itself)
ClaimedFiles(i) ==
    IF clientName = "sonarr"
    THEN {<<j, EpisodeFileID(workList[i], j)>> : j \in EpisodesWithFiles(workList[i])}
    ELSE IF Movie(workList[i]).hasFile /\ Movie(workList[i]).fileID # NoFile
         THEN {<<0, Movie(workList[i]).fileID>>}
         ELSE {}

\* C1: in a dry run none of DeleteEpisodeFile, DeleteMovieFile,
\* DeleteSymlink, AddMovie, AddSeries and TriggerRefresh is ever invoked,
\* whatever the interleaving and whatever fails.
C1_DryRunNeverMutates ==
    dryRun => \A c \in log : c.op \notin MutatingOps

\* a dry run that found two missing files and returned normally
C1_Witness ==
    /\ dryRun
    /\ ReturnedResult
    /\ ret.err = "nil"
    /\ ret.stats.missing >= 2
    /\ \E c \in log : c.op = "FileExists" /\ ~c.ok

\* C2: a file record is deleted only after, in the same run, the same worker
\* fetched it successfully with a non-empty path and FileExists(path)
\* returned false; a record whose path is present on disk is never deleted.
C2_DeleteOnlyAfterAbsentProbe ==
    \A c \in log :
        c.op \in DeleteOps =>
            /\ \E d \in log :
                  /\ d.op \in FetchOps /\ d.ok
                  /\ d.w = c.w /\ d.e = c.e /\ d.arg = c.arg
            /\ PathOfFile(c.arg) # << >>
            /\ Call("FileExists", c.w, c.e, c.arg, FALSE) \in log
            /\ PathOfFile(c.arg) \notin Disk

\* one record was deleted and another, present on disk, was probed and kept
C2_Witness ==
    /\ \E c \in log : c.op \in DeleteOps /\ c.ok
    /\ \E d \in log : d.op = "FileExists" /\ d.ok
    /\ \A d \in log : (d.op = "FileExists" /\ d.ok) =>
           \A c \in log : c.op \in DeleteOps => c.arg # d.arg

\* C3: after a run without dry-run that returns a nil error and
\* stats.errors = 0, every file record claimed by an item of the work list
\* was fetched, and each one fetched with a non-empty path that is absent
\* on disk has had its delete operation invoked.
C3_AbsentRecordsDeleted ==
    (ReturnedResult /\ ret.err = "nil" /\ ret.stats.errors = 0 /\ ~dryRun) =>
        \A i \in Workers : \A ef \in ClaimedFiles(i) :
            /\ \E c \in log :
                  c.op \in FetchOps /\ c.w = i /\ c.e = ef[1] /\ c.arg = ef[2]
            /\ \A c \in log :
                  ( /\ c.op \in FetchOps /\ c.ok
                    /\ c.w = i /\ c.e = ef[1] /\ c.arg = ef[2]
                    /\ PathOfFile(ef[2]) # << >>
                    /\ PathOfFile(ef[2]) \notin Disk ) =>
                  \E d \in log :
                      d.op \in DeleteOps /\ d.w = i /\ d.e = ef[1] /\ d.arg = ef[2]

\* a clean run without dry-run returned after deleting two records
C3_Witness ==
    /\ ~dryRun
    /\ ReturnedResult
    /\ ret.err = "nil"
    /\ ret.stats.errors = 0
    /\ ret.stats.deleted >= 2

\* C4: at every point of a run the number of item workers holding a slot
\* of the pool is at most the concurrency limit.
C4_ItemWorkersWithinLimit ==
    /\ semaphore <= concurrentLimit
    /\ Cardinality({i \in Workers :
                       itemPc[i] \in {"fetch", "getfile", "delete", "collect"}})
           <= concurrentLimit

\* the pool is full and another item worker waits for a slot
C4_Witness ==
    /\ semaphore = concurrentLimit
    /\ \E i \in Workers : itemPc[i] = "acquire"
    /\ \E i \in Workers : itemPc[i] \in {"fetch", "getfile", "delete", "collect"}

\* C5: within one series reconciler the number of episode workers between
\* slot acquisition and release is at most min(C, 3), C the outer limit.
C5_EpisodeWorkersWithinCap ==
    \A i \in Workers :
        LET busy == Cardinality({j \in EpIdx : epPc[i][j] \in {"getfile", "delete"}})
        IN /\ epSemaphore[i] = busy
           /\ busy <= concurrentLimit
           /\ busy <= EpisodeCap

\* the limit is above the cap, the cap is reached and an episode waits
C5_Witness ==
    \E i \in Workers :
        /\ concurrentLimit > EpisodeCap
        /\ epSemaphore[i] = EpisodeCap
        /\ \E j \in EpIdx : epPc[i][j] = "acquire"

\* C6 as stated: every returned result has success iff stats.errors = 0,
\* the results returned on cancellation and on an empty inventory included.
C6_SuccessIffNoErrorsAlways ==
    ReturnedResult => (ret.success <=> ret.stats.errors = 0)

\* C6, amended: a result returned with a nil error has success iff
\* stats.errors = 0 (an empty inventory included); a result returned with
\* the cancellation error has success = false whatever stats.errors is.
C6_SuccessIffNoErrors ==
    ReturnedResult =>
        /\ ret.err \in {"nil", Canceled}
        /\ ret.err = "nil" => (ret.success <=> ret.stats.errors = 0)
        /\ ret.err = Canceled => ~ret.success

\* a run that counted an error returned normally, without success
C6_Witness ==
    /\ ReturnedResult
    /\ ret.err = "nil"
    /\ ret.stats.errors >= 1
    /\ ~ret.success

\* worker i found the context cancelled at its select, before StartItem
ItemSawCancel(i) ==
    /\ itemPc[i] = "done"
    /\ \A c \in log : ~(c.op = "StartItem" /\ c.w = i)

\* episode worker (i, j) found the context cancelled at its select
EpisodeSawCancel(i, j) ==
    /\ epPc[i][j] = "done"
    /\ \A c \in log : ~(c.op = "StartEpisode" /\ c.w = i /\ c.e = j)

SomeWorkerSawCancel ==
    \E i \in Workers : ItemSawCancel(i) \/ \E j \in EpIdx : EpisodeSawCancel(i, j)

\* C7 as stated: when the context is cancelled at any moment before a run
\* of CleanupMissingFilesForSeries / ForMovies returns, the run returns a
\* result (not nil) with success = false and the context's error (stated
\* here for the runs that have work to do).
C7_CancelAlwaysReported ==
    (ret.returned /\ dispatched /\ workList # << >> /\ ret.ctxErr = Canceled) =>
        /\ ~ret.nilResult
        /\ ~ret.success
        /\ ret.err = Canceled

\* C7, amended: a run returns the context's error, with a result whose
\* success is false, exactly when an item worker or an episode worker found
\* the context cancelled at its check before starting; a cancellation that
\* no worker finds there leaves the run to return normally.
C7_CancelReportedIffSeen ==
    ReturnedResult =>
        /\ ret.err = Canceled <=> SomeWorkerSawCancel
        /\ ret.err = Canceled => (~ret.success /\ ret.ctxErr = Canceled)

\* cancelled while workers were in flight: part of the work was merged
C7_Witness ==
    /\ ReturnedResult
    /\ ret.err = Canceled
    /\ ~ret.success
    /\ ret.stats.checked >= 1

ConnectivityOps == {"TestConnection", "GetAll"}

\* C8: when the connection test or the inventory listing fails, the run
\* returns a nil result and an error, and no item reconciler, symlink step,
\* delete, add or refresh has been issued.
C8_ConnectivityFailureAborts ==
    (\E c \in log : c.op \in ConnectivityOps /\ ~c.ok) =>
        /\ ret.returned
        /\ ret.nilResult
        /\ ret.err # "nil"
        /\ \A c \in log : c.op \in ConnectivityOps
        /\ ~dispatched
        /\ \A i \in Items : itemPc[i] = "none"
        /\ missingFiles = << >>
        /\ finished = << >>

\* the connection test passed and the listing failed
C8_Witness ==
    /\ Call("TestConnection", 0, 0, 0, TRUE) \in log
    /\ Call("GetAll", 0, 0, 0, FALSE) \in log
    /\ ret.returned

\* the failed calls that count as an error: fetching an item, fetching a
\* file record (unless the error says "not found"), deleting a file record
CountedFailures ==
    {c \in log :
        /\ ~c.ok
        /\ \/ c.op \in {"GetMovie", "GetEpisodesForSeries"}
           \/ c.op \in DeleteOps
           \/ c.op \in FetchOps /\ ~Contains(ToLower(c.err), NotFoundText)}

\* C9: a failure to fetch an item, to fetch a file record (other than "not
\* found") or to delete a file record adds one to stats.errors and does not
\* stop the run: unless the run ends on cancellation, every item of the
\* work list is started and every file-claiming episode of every fetched
\* series is checked.
C9_FailuresCountedRunContinues ==
    (ReturnedResult /\ ret.err # Canceled) =>
        /\ ret.stats.errors = Cardinality(CountedFailures) + sym.stats.errors
        /\ \A i \in Workers :
              /\ Call("StartItem", i, 0, workList[i], TRUE) \in log
              /\ \E c \in log : c.op \in {"GetMovie", "GetEpisodesForSeries"} /\ c.w = i
              /\ \A c \in log :
                    (c.op \in {"GetMovie", "GetEpisodesForSeries"} /\ c.w = i /\ c.ok) =>
                        \A ef \in ClaimedFiles(i) :
                            \E d \in log : /\ d.op \in FetchOps
                                           /\ d.w = i /\ d.e = ef[1] /\ d.arg = ef[2]

\* an item could not be fetched, and the run went on to check file records
C9_Witness ==
    /\ ReturnedResult
    /\ ret.err = "nil"
    /\ \E c \in log : c.op \in {"GetMovie", "GetEpisodesForSeries"} /\ ~c.ok
    /\ ret.stats.errors >= 1
    /\ ret.stats.checked >= 1

\* the fetches of file records that failed with a "not found" error
NotFoundFetches ==
    {c \in log : /\ c.op \in FetchOps
                 /\ ~c.ok
                 /\ Contains(ToLower(c.err), NotFoundText)}

\* C10: when GetEpisodeFile or GetMovieFile fails with an error whose text
\* contains "not found" in any case, the record counts as checked, no error
\* is counted or reported for it, no registry entry is recorded for it and
\* no delete is issued for it.
C10_NotFoundIsNotAnError ==
    /\ \A c \in NotFoundFetches :
          /\ Call("LogInfo", c.w, c.e, c.arg, TRUE) \in log
          /\ \A d \in log :
                (d.w = c.w /\ d.e = c.e /\ d.arg = c.arg) =>
                    d.op \notin {"LogWarn", "ReportError", "FileExists"} \cup DeleteOps
    /\ \A f \in AllFileIDs :
          Cardinality({k \in 1..Len(missingFiles) : missingFiles[k].fileID = f})
              = Cardinality({c \in log : c.op = "FileExists" /\ ~c.ok /\ c.arg = f})
    /\ (ReturnedResult /\ ret.err = "nil") =>
          /\ ret.stats.checked
                 = Cardinality({c \in log : c.op \in FetchOps}) + sym.stats.checked
          /\ ret.stats.errors
                 = Cardinality(CountedFailures \ NotFoundFetches) + sym.stats.errors

\* a fetch failed with "404 Not Found" and the run returned without errors
C10_Witness ==
    /\ ReturnedResult
    /\ ret.err = "nil"
    /\ ret.stats.errors = 0
    /\ ret.stats.checked >= 2
    /\ \E c \in NotFoundFetches : c.err = ErrHTTPNotFound

\* the sum f[1] + ... + f[n]
RECURSIVE SumTo(_, _)
SumTo(f, n) == IF n = 0 THEN 0 ELSE f[n] + SumTo(f, n - 1)

\* the claimed file records of item i whose path is non-empty and absent
AbsentFiles(i) ==
    {ef \in ClaimedFiles(i) :
        PathOfFile(ef[2]) # << >> /\ PathOfFile(ef[2]) \notin Disk}

ClaimedTotal == SumTo([i \in Workers |-> Cardinality(ClaimedFiles(i))], Len(workList))
AbsentTotal == SumTo([i \in Workers |-> Cardinality(AbsentFiles(i))], Len(workList))

\* every call to the backend and to the scan returned without an error
\* (FileExists and the collection query answer no without failing)
NoCallFailed ==
    \A c \in log : c.op \notin {"FileExists", "GetByExternalID"} => c.ok

\* a series run returned, never cancelled, nothing failed, no broken link
CleanSeriesRun ==
    /\ clientName = "sonarr"
    /\ ReturnedResult
    /\ dispatched
    /\ ret.ctxErr = "nil"
    /\ NoCallFailed
    /\ sym.found = << >>

\* C11: a series run that is not cancelled, in which every backend call
\* succeeds and no broken symlink is found, returns checked = the episodes
\* with hasFile and a file ID over the listed series, missingFiles = those
\* whose path is non-empty and absent on disk, deletedRecords = missingFiles
\* unless dry-run (then 0), errors = 0, whatever the interleaving.
C11_CleanSeriesRunStats ==
    CleanSeriesRun =>
        ret.stats = [checked |-> ClaimedTotal,
                     missing |-> AbsentTotal,
                     deleted |-> IF dryRun THEN 0 ELSE AbsentTotal,
                     errors  |-> 0]

\* three episodes, two claiming a file, one of them missing on disk
C11_Witness ==
    /\ CleanSeriesRun
    /\ ~dryRun
    /\ workList = <<1>>
    /\ episodeCount = 3
    /\ ret.stats = [checked |-> 2, missing |-> 1, deleted |-> 1, errors |-> 0]

\* C12: two dry runs, one after the other, against the same unchanged
\* backend and filesystem return identical stats (checked, missingFiles,
\* deletedRecords, errors), whatever the interleaving of each run.
C12_DryRunsAgree ==
    (dryRun /\ earlier # << >> /\ ret.returned) =>
        /\ ret.nilResult = earlier[1].nilResult
        /\ ret.stats = earlier[1].stats

\* a second dry run returned after finding a missing file and a broken link
C12_Witness ==
    /\ dryRun
    /\ earlier # << >>
    /\ ReturnedResult
    /\ ret.stats.missing >= 2
    /\ sym.found # << >>
    /\ \E c \in log : c.op = "FileExists" /\ ~c.ok

(***************************************************************************)
(* The report: C13 to C16, under SpecRegistry.                             *)
(***************************************************************************)
\* the external catalog ID of an entry: TMDB for a movie, TVDB for a series
ExternalID(e) == IF e.mediaType = "movie" THEN e.tmdbID ELSE e.tvdbID

ReportEntries == report.missingFiles
RawOfKey(key) ==
    {missingFiles[k] : k \in {h \in DOMAIN missingFiles :
                                 DedupKey(missingFiles[h]) = key}}
RetainedOfKey(key) ==
    {ReportEntries[p] : p \in {r \in DOMAIN ReportEntries :
                                  DedupKey(ReportEntries[r]) = key}}
RawKeys == {DedupKey(missingFiles[k]) : k \in DOMAIN missingFiles}

\* C13 (as claimed): in a built report no two entries share the media kind
\* and a (nonzero) external ID, and no two entries share the media kind and
\* the file path, whatever raw entries were appended.
C13_NoSharedIDOrPath ==
    report.built =>
        \A p, r \in DOMAIN ReportEntries :
            p # r =>
                LET a == ReportEntries[p]
                    b == ReportEntries[r]
                IN  /\ ~(/\ a.mediaType = b.mediaType
                         /\ ExternalID(a) > 0
                         /\ ExternalID(a) = ExternalID(b))
                    /\ ~(a.mediaType = b.mediaType /\ a.filePath = b.filePath)

\* C13: the case of the claim has happened: two raw entries of one path, one
\* with an external ID and one without, and a report built from them.
C13_Witness ==
    /\ report.built
    /\ Len(missingFiles) = 2
    /\ missingFiles[1].filePath = missingFiles[2].filePath
    /\ ExternalID(missingFiles[1]) = 0
    /\ ExternalID(missingFiles[2]) > 0
    /\ report.totalMissing = 2

\* C14: when raw entries share a deduplication key and one of them has a
\* nonzero file-record ID while another has ID 0, the report retains for
\* that key exactly one entry, and it is one with a nonzero ID (the one, if
\* only one has it), whatever the append order and the timestamps.
C14_NonzeroIDPreferred ==
    report.built =>
        \A key \in RawKeys :
            LET real == {e \in RawOfKey(key) : e.fileID > 0}
            IN  (real # {} /\ real # RawOfKey(key)) =>
                    /\ Cardinality(RetainedOfKey(key)) = 1
                    /\ RetainedOfKey(key) \subseteq real

\* C14: a symlink entry (ID 0) appended after, and stamped later than, the
\* record entry of the same key; the record entry is the one in the report.
C14_Witness ==
    /\ report.built
    /\ Len(missingFiles) = 2
    /\ DedupKey(missingFiles[1]) = DedupKey(missingFiles[2])
    /\ missingFiles[1].fileID > 0
    /\ missingFiles[2].fileID = 0
    /\ StrLess(missingFiles[1].processedAt, missingFiles[2].processedAt)
    /\ ReportEntries = <<missingFiles[1]>>

\* C15: when the raw entries that share a deduplication key have file-record
\* IDs that are all zero or all nonzero, the entry the report retains for
\* the key is one of them and none of them has a later timestamp.
C15_LaterTimestampKept ==
    report.built =>
        \A key \in RawKeys :
            LET real == {e \in RawOfKey(key) : e.fileID > 0}
            IN  (real = {} \/ real = RawOfKey(key)) =>
                    /\ Cardinality(RetainedOfKey(key)) = 1
                    /\ RetainedOfKey(key) \subseteq RawOfKey(key)
                    /\ \A kept \in RetainedOfKey(key), e \in RawOfKey(key) :
                          ~StrLess(kept.processedAt, e.processedAt)

\* C15: two record entries of one key with different nonzero IDs, the
\* second stamped later; the second is the one in the report.
C15_Witness ==
    /\ report.built
    /\ Len(missingFiles) = 2
    /\ DedupKey(missingFiles[1]) = DedupKey(missingFiles[2])
    /\ missingFiles[1].fileID > 0
    /\ missingFiles[2].fileID > 0
    /\ missingFiles[1].fileID # missingFiles[2].fileID
    /\ StrLess(missingFiles[1].processedAt, missingFiles[2].processedAt)
    /\ ReportEntries = <<missingFiles[2]>>

\* C16: the entries of a built report are in ascending order of processing
\* timestamp: no entry's timestamp is greater than the next one's.
C16_ReportOrdered ==
    report.built =>
        \A p \in DOMAIN ReportEntries :
            p < Len(ReportEntries) =>
                ~StrLess(ReportEntries[p + 1].processedAt,
                         ReportEntries[p].processedAt)

\* C16: entries appended latest first, each under its own key, and a report
\* that lists all of them.
C16_Witness ==
    /\ report.built
    /\ Len(missingFiles) = MaxRaw
    /\ report.totalMissing = MaxRaw
    /\ StrLess(missingFiles[MaxRaw].processedAt, missingFiles[1].processedAt)


(***************************************************************************)
(* Termination: C17, under SpecFair.                                       *)
(***************************************************************************)
\* C17: every run returns, whatever fails and however the goroutines are
\* interleaved, and a run entered through CleanupMissingFilesForSeries or
\* CleanupMissingFilesForMovies returns a CleanupResult that is not nil.
C17_RunReturnsResult ==
    <>(ret.returned /\ (entry = "ids" => ~ret.nilResult))

\* C17: a run over more items than the concurrency limit admits at once,
\* with a failed item, has returned its result.
C17_Witness ==
    /\ entry = "ids"
    /\ Len(workList) > concurrentLimit
    /\ ReturnedResult
    /\ ret.stats.errors > 0
    /\ \A i \in Workers : itemPc[i] = "done"

(***************************************************************************)
(* Recovery of a collection entry behind a broken symlink: C18.            *)
(***************************************************************************)
SymlinkPcs == {"link", "query", "lookup", "add"}

\* the handling of the k-th broken symlink found is over
LinkHandled(k) ==
    /\ k \in 1..Len(sym.found)
    /\ \/ sym.linkIdx > k
       \/ sym.linkIdx = k /\ mainPc \notin SymlinkPcs

\* a call of the given kind was issued for link k, with the given outcome
SymCall(op, k, ok) == \E c \in log : c.op = op /\ c.e = k /\ c.ok = ok

AddCallsOf(k) == {c \in DOMAIN addCalls : addCalls[c].link = k}
EntriesOf(path) == {h \in DOMAIN missingFiles : missingFiles[h].filePath = path}

\* what C18 concludes for link k
RecoveredByAdd(k) ==
    LET path == sym.found[k]
        id == ParseIDFromPath(path, OwnTag(clientName)).id
    IN  /\ SymCall("Lookup", k, TRUE)
        /\ Cardinality(AddCallsOf(k)) = 1
        /\ \A c \in AddCallsOf(k) :
              /\ addCalls[c].id = id
              /\ addCalls[c].monitored
              /\ addCalls[c].qualityProfileID = QualityProfileID
              /\ \E r \in DOMAIN rootFolders :
                    /\ addCalls[c].rootFolderPath = rootFolders[r]
                    /\ HasPrefix(path, rootFolders[r])
        /\ Cardinality(EntriesOf(path)) = 1
        /\ \A h \in EntriesOf(path) :
              /\ missingFiles[h].fileID = 0
              /\ missingFiles[h].addedToCollection
              /\ ExternalID(missingFiles[h]) = id

\* the conditions C18 names for link k: a catalog tag in the path, no entry
\* reported by the collection query, no failed lookup, adding enabled, not
\* a dry run
TaggedAbsentAddable(k) ==
    /\ ParseIDFromPath(sym.found[k], OwnTag(clientName)).ok
    /\ ~SymCall("GetByExternalID", k, TRUE)
    /\ ~SymCall("Lookup", k, FALSE)
    /\ addMissingMovies
    /\ ~dryRun

HandedTo(x) == {c \in log : c.op = "StartItem" /\ c.arg = x}

\* C19 (as claimed): within one run every series or movie ID is handed to
\* the item reconciler at most once, also when the work list names an ID
\* more than once.
C19_EachIDHandedOnce ==
    \A x \in Items : Cardinality(HandedTo(x)) <= 1

\* C19: a run over a list that names one ID twice has returned, and the
\* item was reconciled, and counted, twice.
C19_Witness ==
    /\ entry = "ids"
    /\ workList = <<1, 1>>
    /\ ReturnedResult
    /\ Cardinality(HandedTo(1)) = 2
    /\ ret.stats.checked = 2

(***************************************************************************)
(* Aggregation: C20.                                                       *)
(***************************************************************************)
\* what the result of one item worker adds to the aggregate: its stats, or
\* one error when it carries an error
Contribution(r) ==
    IF r.err = "nil" THEN r.stats ELSE [ZeroStats EXCEPT !.errors = 1]

\* the contributions of the workers, summed in the order of the work list
ChecksSum == SumTo([i \in Items |-> Contribution(itemResult[i]).checked],
                   Len(workList))
MissingSum == SumTo([i \in Items |-> Contribution(itemResult[i]).missing],
                    Len(workList))
DeletedSum == SumTo([i \in Items |-> Contribution(itemResult[i]).deleted],
                    Len(workList))
ErrorsSum == SumTo([i \in Items |-> Contribution(itemResult[i]).errors],
                   Len(workList))

\* the run went through to its end: nothing was returned for a cancellation
Completed == ReturnedResult /\ ret.err = "nil"

\* C20: the stats of a run that was not cut short by a cancellation are the
\* component-wise sum of the results of the item workers, taken in the
\* order of the work list, plus the counters of the symlink phase; so they
\* do not depend on the order in which the results were delivered.
C20_StatsAreSumOfResults ==
    Completed =>
        /\ ret.stats.checked = ChecksSum + sym.stats.checked
        /\ ret.stats.missing = MissingSum + sym.stats.missing
        /\ ret.stats.deleted = DeletedSum
        /\ ret.stats.errors = ErrorsSum + sym.stats.errors

\* C20: two workers that ran side by side with different results, one of
\* them with errors, and a run that completed.
C20_Witness ==
    /\ Completed
    /\ ~ctxDone
    /\ Len(workList) = 2
    /\ concurrentLimit >= 2
    /\ itemResult[1] # itemResult[2]
    /\ ret.stats.errors > 0
    /\ ret.stats.checked > 0

(***************************************************************************)
(* The registry under concurrent appends: C21, under SpecAppend.           *)
(***************************************************************************)
\* goroutine a is between Lock and Unlock of s.missingFilesMu
InCriticalSection(a) == appender[a].pc \in {"read", "store", "unlock"}

\* the append statement of goroutine a has been executed
HasAppended(a) == appender[a].pc \in {"unlock", "returned"}

Occurrences(e) == Cardinality({p \in DOMAIN missingFiles : missingFiles[p] = e})

\* C21: no two goroutines are between Lock and Unlock of the registry mutex
\* at the same time, and the registry holds exactly one raw entry for every
\* append executed: as many entries as appends, each entry as many times as
\* it was appended, equal entries included.
C21_AppendsUnderMutex ==
    /\ \A a, b \in Appenders :
          InCriticalSection(a) /\ InCriticalSection(b) => a = b
    /\ Len(missingFiles) = Cardinality({a \in Appenders : HasAppended(a)})
    /\ \A e \in ConcurrentEntries :
          Occurrences(e) =
              Cardinality({a \in Appenders :
                              HasAppended(a) /\ appender[a].args = <<e>>})

\* C21: every goroutine has returned from its append, two of them appended
\* equal entries, and one of them had to wait for the mutex.
C21_Witness ==
    /\ \A a \in Appenders : AppenderAt(a, "returned")
    /\ Len(missingFiles) = MaxAppenders
    /\ \E a, b \in Appenders : a # b /\ appender[a].args = appender[b].args
    /\ \E a, b \in Appenders : appender[a].args # appender[b].args

(***************************************************************************)
(* The refresh request: C22 and C23.                                       *)
(***************************************************************************)
\* the TriggerRefresh calls issued so far
RefreshCalls == {c \in log : c.op = "TriggerRefresh"}

\* a backend file record has been deleted
DeletedSome == \E c \in log : c.op \in DeleteOps /\ c.ok

\* the run returns in this step
RunReturns == ~ret.returned /\ ret'.returned

\* every item worker has sent its result and the collector has received it
AllAggregated ==
    /\ dispatched
    /\ resultsClosed
    /\ resultsChan = << >>
    /\ \A i \in Workers : itemPc[i] = "done"

\* C22 (as claimed): when a run that is not a dry run returns, exactly one
\* TriggerRefresh call has been issued if a backend file record was deleted
\* during the run, and none if no record was deleted.
C22_RefreshIffDeleted ==
    [][(RunReturns /\ ~dryRun) =>
          /\ DeletedSome => Cardinality(RefreshCalls') = 1
          /\ ~DeletedSome => RefreshCalls' = {}]_vars

\* C22 (amended): when a run that is not a dry run returns with a nil error
\* and a backend file record was deleted during it, exactly one
\* TriggerRefresh call has been issued, in the returning step and with every
\* item worker's result aggregated; when no record was deleted the run has
\* issued none.  A run that returns the context's error has issued none,
\* whether or not records were deleted, and so has a dry run.  No
\* TriggerRefresh call is issued at any other moment.
C22_RefreshAfterCompletedRun ==
    [][/\ (RunReturns /\ ~dryRun /\ ret'.err = "nil" /\ DeletedSome) =>
              /\ Cardinality(RefreshCalls') = 1
              /\ RefreshCalls = {}
              /\ AllAggregated
       /\ (RunReturns /\ ~DeletedSome) => RefreshCalls' = {}
       /\ (RunReturns /\ (dryRun \/ ret'.err = Canceled)) => RefreshCalls' = {}
       /\ ~RunReturns => RefreshCalls' = RefreshCalls]_vars

\* C22: a run over two items that is not a dry run has returned a nil
\* error; a file record was deleted and one TriggerRefresh call was issued.
C22_Witness ==
    /\ ret.returned /\ ret.err = "nil" /\ ~dryRun
    /\ Len(workList) = MaxItems
    /\ DeletedSome
    /\ Cardinality(RefreshCalls) = 1
    /\ ret.stats.deleted > 0

\* the TriggerRefresh call of the run failed
RefreshFailed == \E c \in RefreshCalls : ~c.ok

\* C23: a failed TriggerRefresh appends one message and nothing else: the
\* run returns in that step with a nil error, with the stats that were
\* handed to the progress reporter just before (so the failure is not
\* counted as an error) and with success = (stats.errors = 0); in particular
\* a run without errors whose refresh fails returns success = true.
C23_RefreshFailureOnlyAMessage ==
    (ret.returned /\ RefreshFailed) =>
        /\ ret.err = "nil" /\ ~ret.nilResult
        /\ finished # << >>
        /\ ret.stats = finished[Len(finished)]
        /\ ret.stats = stats
        /\ ret.success = (ret.stats.errors = 0)
        /\ ret.messages # << >>
        /\ ret.messages[Len(ret.messages)] = "refresh-failed"
        /\ Cardinality({p \in DOMAIN ret.messages :
                           ret.messages[p] = "refresh-failed"}) = 1

\* C23: a run without errors deleted a record, its TriggerRefresh failed,
\* and it returned success = true with a nil error.
C23_Witness ==
    /\ ret.returned /\ RefreshFailed
    /\ ret.stats.errors = 0 /\ ret.stats.deleted > 0
    /\ ret.success /\ ret.err = "nil"
    /\ ret.messages = <<"refresh-failed">>

(***************************************************************************)
(* Cancellation seen before a worker starts: C24.                          *)
(***************************************************************************)
\* item worker i, and episode worker (i, j), passed its select and started
StartedItem(i) == \E d \in log : d.op = "StartItem" /\ d.w = i
StartedEpisode(i, j) ==
    \E d \in log : d.op = "StartEpisode" /\ d.w = i /\ d.e = j

\* the calls made for an item, and those made for an episode of it
ItemCalls(l) == {c \in l : c.w # 0}
EpisodeCalls(l) == {c \in l : c.w # 0 /\ c.e # 0}

\* a step in which no worker starts once the signal is set, every call made
\* is for a worker that has started, and a worker that leaves its select
\* with the signal set only sends the context's error
CancelledWorkerStep ==
    /\ \A c \in ItemCalls(log' \ log) :
          c.op = "StartItem" \/ StartedItem(c.w)
    /\ \A c \in EpisodeCalls(log' \ log) :
          c.op = "StartEpisode" \/ StartedEpisode(c.w, c.e)
    /\ ctxDone =>
          \A c \in log' \ log : c.op \notin {"StartItem", "StartEpisode"}
    /\ \A i \in Workers :
          (ctxDone /\ itemPc[i] = "acquire" /\ itemPc'[i] # "acquire") =>
              /\ itemPc'[i] = "done"
              /\ itemResult'[i] = Result(ZeroStats, Canceled)
              /\ log' = log /\ files' = files
              /\ missingFiles' = missingFiles
    /\ \A i \in Workers : \A j \in EpIdx :
          (ctxDone /\ epPc[i][j] = "acquire" /\ epPc'[i][j] # "acquire") =>
              /\ epPc'[i][j] = "done"
              /\ log' = log /\ files' = files
              /\ missingFiles' = missingFiles

\* C24: a worker that finds the context cancelled at its select, after
\* acquiring its slot, sends the context's error with zero stats and makes
\* no call: a call for an item is made only after its worker started, a call
\* for an episode only after its episode worker started, and no worker
\* starts in a step taken with the signal set.  When the signal is set
\* before the workers are dispatched, no call is ever made for an item and
\* no backend file record is ever deleted.
C24_CancelledWorkerDoesNothing ==
    /\ [][CancelledWorkerStep]_vars
    /\ []((ctxDone /\ ~dispatched) =>
             [](/\ ItemCalls(log) = {}
                /\ \A c \in log : c.op \notin DeleteOps))

\* C24: a run over two series returned the context's error; the worker of
\* the second series found the signal set and made no call, and so did an
\* episode worker of the first series, another episode of which had been
\* reconciled before.
C24_Witness ==
    /\ ret.returned /\ ret.err = Canceled
    /\ clientName = "sonarr" /\ Len(workList) = MaxItems
    /\ ItemSawCancel(2)
    /\ ItemCalls(log) # {} /\ \A c \in ItemCalls(log) : c.w = 1
    /\ \E j, k \in EpIdx :
          /\ EpisodeSawCancel(1, j)
          /\ StartedEpisode(1, k)
          /\ \A c \in EpisodeCalls(log) : c.e # j

(***************************************************************************)
(* The workers after a cancelled run has returned: C25, under SpecFair.    *)
(***************************************************************************)
\* the run has returned the context's error with its partial result
CancelledReturn == ReturnedResult /\ ret.err = Canceled

\* every dispatched item worker has delivered its result and released its
\* slot, and so has every dispatched episode worker
AllWorkersDone ==
    /\ \A i \in Workers : itemPc[i] = "done" /\ itemResult[i] # NoResult
    /\ semaphore = 0
    /\ resultsClosed
    /\ \A i \in Workers : \A j \in EpIdx : epPc[i][j] \in {"none", "done"}
    /\ \A i \in Workers : epSemaphore[i] = 0

\* C25: after a cancelled run has returned its partial result, every
\* dispatched item worker and episode worker eventually delivers its result
\* and releases its slot: none stays blocked on a result channel or on a
\* semaphore.
C25_WorkersFinishAfterCancel == CancelledReturn ~> AllWorkersDone

\* C25: a cancelled run over two series has returned while an item worker
\* waits for its send or its slot and an episode worker has not finished.
C25_Witness ==
    /\ CancelledReturn
    /\ \E i \in Workers : itemPc[i] # "done"
    /\ \E i \in Workers : \E j \in EpIdx : epPc[i][j] \notin {"none", "done"}
    /\ ~resultsClosed

(***************************************************************************)
(* The symlink recovery and the worker pool: C26.                          *)
(***************************************************************************)
\* the main goroutine is inside handleBrokenSymlinks[ForSeries]
InSymlinkRecovery == mainPc \in {"symlinks", "scan"} \cup SymlinkPcs

\* a call was issued in the handling of the k-th broken symlink
LinkCalled(k) == \E c \in log : c.w = 0 /\ c.e = k

\* C26: the broken symlinks are handled one after another, and all of them
\* before the first item worker is dispatched: while the main goroutine is
\* in the symlink recovery no worker exists and no call was made for an
\* item; once the workers are dispatched every symlink found has been
\* handled; and a call for a symlink was issued only after every symlink
\* before it had been handled.
C26_SymlinksBeforeWorkers ==
    /\ InSymlinkRecovery =>
          /\ ~dispatched
          /\ \A i \in Items : itemPc[i] = "none"
          /\ ItemCalls(log) = {}
    /\ (dispatched \/ \E i \in Items : itemPc[i] # "none") =>
          /\ ~InSymlinkRecovery
          /\ \A k \in 1..Len(sym.found) : LinkHandled(k)
    /\ \A k \in 1..Len(sym.found) :
          LinkCalled(k) => \A h \in 1..(k - 1) : LinkHandled(h)
    /\ \A k \in 1..Len(sym.found) :
          (sym.linkIdx = k /\ mainPc \in SymlinkPcs) =>
              \A h \in (k + 1)..Len(sym.found) : ~LinkCalled(h)

\* C26: two broken symlinks were found and handled, calls were issued for
\* both, and an item worker has started since.
C26_Witness ==
    /\ Len(sym.found) = MaxSymlinks
    /\ \A k \in 1..MaxSymlinks : LinkHandled(k) /\ LinkCalled(k)
    /\ dispatched
    /\ ItemCalls(log) # {}

(***************************************************************************)
(* When the symlink recovery runs: C27.                                    *)
(***************************************************************************)
\* the executions of handleBrokenSymlinks[ForSeries], each of which begins
\* with its GetRootFolders call
RecoveryRuns == {c \in log : c.op = "GetRootFolders"}

\* C27 (as claimed): a run that returned a result executed the symlink
\* recovery exactly once when it was a full pass (CleanupMissingFiles), and
\* did not execute it when it was called with an explicit list of IDs
\* (CleanupMissingFilesForSeries / ForMovies).
C27_RecoveryOnlyInFullPass ==
    ReturnedResult =>
        IF entry = "all"
        THEN Cardinality(RecoveryRuns) = 1
        ELSE RecoveryRuns = {}

\* C27: a run called with an explicit list of IDs executed the symlink
\* recovery, deleted a broken symlink and returned.
C27_Witness ==
    /\ ReturnedResult
    /\ entry = "ids" /\ workList # << >>
    /\ Cardinality(RecoveryRuns) = 1
    /\ \E c \in log : c.op = "DeleteSymlink" /\ c.ok

(***************************************************************************)
(* The steps of the symlink recoverer: C28 to C30.                         *)
(***************************************************************************)
\* the kind of the broken symlink with the given path
KindOfPath(path) ==
    links[CHOOSE h \in 1..Len(links) :
              LinkPathIn(clientName, rootFolders, links, h) = path]

\* the k-th symlink found is of the given kind and its handling is over
HandledOfKind(k, kind) ==
    /\ k \in 1..Len(sym.found)
    /\ KindOfPath(sym.found[k]) = kind
    /\ LinkHandled(k)

\* the main goroutine leaves the first step of handleBrokenSymlink for a
\* link of the given kind
FirstStepOfKind(kind) ==
    /\ mainPc = "link"
    /\ KindOfPath(CurrentLink) = kind
    /\ <<mainPc, sym>>' # <<mainPc, sym>>

\* the handling of a symlink without a tag of the client's catalog: counted
\* as checked, nothing else changes
SkipStep ==
    FirstStepOfKind("foreign") =>
        /\ sym'.stats = [sym.stats EXCEPT !.checked = @ + 1]
        /\ log' = log
        /\ brokenLinks' = brokenLinks
        /\ missingFiles' = missingFiles
        /\ collection' = collection
        /\ addCalls' = addCalls
        /\ stats' \in {stats, MergeSymlinkStats(stats, sym'.stats)}

\* C28: a broken symlink whose path carries no tag of the client's catalog
\* is skipped: it is not deleted, no call is issued for it, no registry
\* entry is recorded for it, nothing is handed to the add operation, and its
\* handling adds nothing to the errors or to the missing files counted.
C28_UntaggedSymlinkSkipped ==
    /\ [](\A k \in 1..Len(sym.found) :
             HandledOfKind(k, "foreign") =>
                 /\ sym.found[k] \in brokenLinks
                 /\ ~LinkCalled(k)
                 /\ EntriesOf(sym.found[k]) = {}
                 /\ AddCallsOf(k) = {})
    /\ [][SkipStep]_vars

\* C28: a run that is not a dry run found one untagged broken symlink and
\* one tagged one, handled both and returned: the tagged one was deleted and
\* recorded, the untagged one is still there and only counted as checked.
C28_Witness ==
    /\ ret.returned /\ ~dryRun
    /\ Len(sym.found) = MaxSymlinks
    /\ HandledOfKind(1, "foreign")
    /\ HandledOfKind(2, "existing")
    /\ sym.found[1] \in brokenLinks /\ sym.found[2] \notin brokenLinks
    /\ sym.stats = [ZeroStats EXCEPT !.checked = 2, !.missing = 1]

\* the k-th symlink found carries a tag of the client's catalog
Tagged(k) == KindOfPath(sym.found[k]) \in {"existing", "new"}

\* the calls issued in the handling of the k-th symlink found
CallsOfLink(k) == {c \in log : c.w = 0 /\ c.e = k}

CollectionOps == {"GetByExternalID", "Lookup", "Add"}

\* the step in which DeleteSymlink fails: one error more in the counters of
\* the recovery, and nothing else
DeleteFailureStep ==
    (\E c \in log' \ log : c.op = "DeleteSymlink" /\ ~c.ok) =>
        /\ sym'.stats = [sym.stats EXCEPT !.errors = @ + 1]
        /\ stats' \in {stats, MergeSymlinkStats(stats, sym'.stats)}
        /\ brokenLinks' = brokenLinks
        /\ missingFiles' = missingFiles
        /\ collection' = collection
        /\ addCalls' = addCalls
        /\ mainPc' \in {"link", "dispatch"}

\* C29: in a run that is not a dry run, a collection query, lookup or add
\* for a tagged broken symlink is issued only after its DeleteSymlink call
\* succeeded, by which the link is gone from the disk; when DeleteSymlink
\* fails, the handling of that symlink ends there: it is the only call
\* issued for it, no registry entry is recorded for it, nothing is handed to
\* the add operation, and the errors counted grow by exactly one.
C29_DeleteSymlinkFirst ==
    /\ [](\A k \in 1..Len(sym.found) :
             /\ (~dryRun /\ \E c \in CallsOfLink(k) : c.op \in CollectionOps) =>
                    /\ Tagged(k)
                    /\ SymCall("DeleteSymlink", k, TRUE)
                    /\ sym.found[k] \notin brokenLinks
             /\ SymCall("DeleteSymlink", k, FALSE) =>
                    /\ ~dryRun /\ Tagged(k)
                    /\ \A c \in CallsOfLink(k) : c.op = "DeleteSymlink" /\ ~c.ok
                    /\ EntriesOf(sym.found[k]) = {}
                    /\ AddCallsOf(k) = {}
                    /\ sym.found[k] \in brokenLinks)
    /\ [][DeleteFailureStep]_vars

\* C29: a run that is not a dry run found two tagged broken symlinks; the
\* DeleteSymlink call of the first failed, the second was deleted and then
\* looked for in the collection; the run returned with one error.
C29_Witness ==
    /\ ret.returned /\ ~dryRun
    /\ Len(sym.found) = MaxSymlinks
    /\ SymCall("DeleteSymlink", 1, FALSE)
    /\ LinkHandled(1) /\ LinkHandled(2)
    /\ SymCall("DeleteSymlink", 2, TRUE)
    /\ \E c \in CallsOfLink(2) : c.op = "GetByExternalID"
    /\ ret.stats.errors = 1

\* the external ID in the path of the k-th symlink found
IDOfLink(k) == ParseIDFromPath(sym.found[k], OwnTag(clientName)).id

\* the backend held a collection entry with the ID of link k when the
\* handling of link k began: from the start, or added for an earlier link
InCollectionBefore(k) ==
    \/ IDOfLink(k) \in Items
    \/ \E c \in log : /\ c.op = "Add" /\ c.ok /\ c.w = 0
                      /\ c.e < k /\ c.arg = IDOfLink(k)

\* the collection query for link k was issued
Queried(k) == \E c \in CallsOfLink(k) : c.op = "GetByExternalID"

\* what C30 concludes for link k: one registry entry, with file-record ID
\* 0, not added, carrying the ID of the path; no lookup and no add
RecordedAsExisting(k) ==
    /\ Cardinality(EntriesOf(sym.found[k])) = 1
    /\ \A h \in EntriesOf(sym.found[k]) :
          /\ missingFiles[h].fileID = 0
          /\ ~missingFiles[h].addedToCollection
          /\ missingFiles[h].mediaType = MediaType
          /\ (IF clientName = "radarr" THEN missingFiles[h].tmdbID
                                      ELSE missingFiles[h].tvdbID) = IDOfLink(k)
    /\ \A c \in CallsOfLink(k) : c.op \notin {"Lookup", "Add"}
    /\ AddCallsOf(k) = {}

\* C30 (as claimed): a handled broken symlink that reached the collection
\* check, and whose ID the backend already held in its collection, has
\* exactly one registry entry with file-record ID 0 and addedToCollection
\* false, and neither the lookup nor the add was invoked for it.
C30_ExistingEntryRecordedOnly ==
    \A k \in 1..Len(sym.found) :
        (LinkHandled(k) /\ Tagged(k) /\ Queried(k) /\ InCollectionBefore(k)) =>
            RecordedAsExisting(k)

\* what does hold: a handled broken symlink whose collection query returned
\* an entry has exactly one registry entry with file-record ID 0 and
\* addedToCollection false, and neither the lookup nor the add was invoked
\* for it; the query returns an entry only when the backend holds one.
FoundEntryRecordedOnly ==
    \A k \in 1..Len(sym.found) :
        (LinkHandled(k) /\ SymCall("GetByExternalID", k, TRUE)) =>
            /\ Tagged(k)
            /\ InCollectionBefore(k)
            /\ RecordedAsExisting(k)

\* C30: a broken symlink carries an ID the collection holds; its collection
\* query failed, and the recoverer went on to the lookup and handed the ID
\* to the add operation.
C30_Witness ==
    /\ ret.returned /\ ~dryRun /\ addMissingMovies
    /\ \E k \in 1..Len(sym.found) :
          /\ LinkHandled(k)
          /\ KindOfPath(sym.found[k]) = "existing"
          /\ IDOfLink(k) \in Items
          /\ SymCall("GetByExternalID", k, FALSE)
          /\ SymCall("Lookup", k, TRUE)
          /\ SymCall("Add", k, TRUE)
          /\ \E h \in EntriesOf(sym.found[k]) :
                missingFiles[h].addedToCollection

(***************************************************************************)
(* What is handed to the add operation: C31, C32, C40.                     *)
(***************************************************************************)
\* C31 (as claimed): no object is handed to AddMovie / AddSeries whose
\* external ID the backend held in its collection when the handling of its
\* symlink began, whatever the collection query returned.
C31_NeverAddsExistingID ==
    \A c \in DOMAIN addCalls : ~InCollectionBefore(addCalls[c].link)

\* C31: the collection query for an ID the collection holds from the start
\* failed, and an object with that ID was handed to the add operation.
C31_Witness ==
    \E c \in DOMAIN addCalls :
        /\ addCalls[c].id \in Items
        /\ addCalls[c].id \in collection
        /\ SymCall("GetByExternalID", addCalls[c].link, FALSE)
        /\ ~SymCall("GetByExternalID", addCalls[c].link, TRUE)

\* the external ID a registry entry carries
ExternalIDOf(e) == IF e.mediaType = "movie" THEN e.tmdbID ELSE e.tvdbID

\* the symlinks found whose path is that of the registry entry e
LinksOfEntry(e) == {k \in 1..Len(sym.found) : sym.found[k] = e.filePath}

\* C32: a registry entry with addedToCollection = true exists only in a run
\* that is not a dry run and has the add flag set; it is the entry of a
\* broken symlink (file-record ID 0) for which an add call with the entry's
\* external ID succeeded.  The entries of a dry run, of a run without the
\* flag, of the direct reconcilers (file-record ID not 0), of a symlink
\* whose collection query found an entry and of a symlink without a
\* successful add all have addedToCollection = false.
C32_AddedFlagMeansAdded ==
    \A h \in DOMAIN missingFiles :
        LET e == missingFiles[h] IN
        /\ e.addedToCollection =>
              /\ ~dryRun /\ addMissingMovies
              /\ e.fileID = 0
              /\ ExternalIDOf(e) # 0
              /\ LinksOfEntry(e) # {}
              /\ \A k \in LinksOfEntry(e) :
                    /\ \E c \in CallsOfLink(k) :
                          c.op = "Add" /\ c.ok /\ c.arg = ExternalIDOf(e)
                    /\ \E c \in AddCallsOf(k) :
                          addCalls[c].id = ExternalIDOf(e)
                    /\ ~SymCall("GetByExternalID", k, TRUE)
        /\ (dryRun \/ ~addMissingMovies \/ e.fileID # 0) =>
              ~e.addedToCollection
        /\ \A k \in LinksOfEntry(e) :
              (SymCall("GetByExternalID", k, TRUE) \/ ~SymCall("Add", k, TRUE))
                  => ~e.addedToCollection

\* C32: the registry of a returned run holds an entry flagged as added, of
\* a symlink whose add succeeded, and an unflagged entry, of a symlink whose
\* ID the collection query found.
C32_Witness ==
    /\ ret.returned
    /\ \E h \in DOMAIN missingFiles :
          /\ missingFiles[h].addedToCollection
          /\ \E k \in LinksOfEntry(missingFiles[h]) : SymCall("Add", k, TRUE)
    /\ \E h \in DOMAIN missingFiles :
          /\ ~missingFiles[h].addedToCollection
          /\ \E k \in LinksOfEntry(missingFiles[h]) :
                SymCall("GetByExternalID", k, TRUE)

(***************************************************************************)
(* One broken symlink's failure and the others: C33.                       *)
(***************************************************************************)
\* the calls whose failure ends the handling of a symlink with an error
LinkFailureOps == {"DeleteSymlink", "Lookup", "Add"}

FailedLinkCalls(l) == {c \in l : c.w = 0 /\ c.op \in LinkFailureOps /\ ~c.ok}
FailedScans(l) == {c \in l : c.w = 0 /\ c.op = "FindBrokenSymlinks" /\ ~c.ok}

\* a step in which a call for link k fails adds one to the error count of
\* the recovery, leaves its other counters alone and moves on to link k+1,
\* or, after the last link, hands the counters to the run; the index of the
\* link in hand only ever moves to the next link
LinkFailureStep ==
    /\ \A c \in FailedLinkCalls(log' \ log) :
          /\ c.e = sym.linkIdx
          /\ sym'.stats.errors = sym.stats.errors + 1
          /\ sym'.stats.checked = sym.stats.checked
          /\ sym'.stats.missing = sym.stats.missing
          /\ IF c.e < Len(sym.found)
             THEN /\ mainPc' = "link"
                  /\ sym'.linkIdx = c.e + 1
                  /\ stats' = stats
             ELSE /\ mainPc' = "dispatch"
                  /\ sym'.linkIdx = c.e
                  /\ stats'.errors = stats.errors + sym'.stats.errors
    /\ sym'.linkIdx \in {sym.linkIdx, sym.linkIdx + 1}
    /\ sym.linkIdx > 0 => sym'.found = sym.found

ReturnedAResult == ret.returned /\ ~ret.nilResult

\* the run went through the worker pool and its collection loop ran to the
\* end of the closed channel
CollectedToTheEnd == ReturnedAResult /\ dispatched /\ ret.err = "nil"

\* C34, as stated: every run that returns a CleanupResult, the cancelled
\* run and the run over an empty inventory included, has issued exactly one
\* Finish call, with the stats it returns.
C34_FinishInEveryReturningRun ==
    ReturnedAResult => (Len(finished) = 1 /\ finished[1] = ret.stats)

\* a Finish call is the first one of the run, is issued before the return,
\* when every item worker has sent its result and the closed channel is
\* drained, and carries the stats aggregated so far
FinishStep ==
    finished' # finished =>
        /\ finished = << >>
        /\ finished' = <<stats>>
        /\ ~ret.returned
        /\ dispatched
        /\ \A i \in Workers : itemPc[i] = "done" /\ itemResult[i] # NoResult
        /\ resultsClosed /\ resultsChan = << >>

\* C34, amended: a run whose collection loop ran to the end of the channel
\* issues exactly one Finish call, after all item workers have delivered
\* their results, with the stats it returns; a run that returns from inside
\* the collection loop on a cancellation, and a run over an empty
\* inventory, return their result without a Finish call.
C34_FinishAfterCompletedCollection ==
    /\ [][FinishStep]_vars
    /\ [](ReturnedAResult =>
            IF CollectedToTheEnd
            THEN Len(finished) = 1 /\ finished[1] = ret.stats
            ELSE finished = << >>)

\* C34: a run over two items returned after its collection loop ended, with
\* one Finish call carrying the returned stats.
C34_Witness ==
    /\ CollectedToTheEnd
    /\ Len(workList) = 2
    /\ ret.stats.checked > 0
    /\ finished = <<ret.stats>>

(***************************************************************************)
(* The report as a function of the entries appended: C35.                  *)
(***************************************************************************)
\* the orders in which the same raw entries may have been appended
AppendOrders(entries) ==
    {[p \in DOMAIN entries |-> entries[f[p]]] :
        f \in {g \in [DOMAIN entries -> DOMAIN entries] :
                  \A p, r \in DOMAIN entries : g[p] = g[r] => p = r}}

\* the entry sequences the report may carry for some order of appending
ReportsOf(entries) ==
    UNION {deduplicateMissingFiles(q) : q \in AppendOrders(entries)}

SameStamp(entries) ==
    \E p, r \in DOMAIN entries :
        p # r /\ entries[p].processedAt = entries[r].processedAt

\* C35: the entry sequence of the report is a function of the raw entries
\* alone: whatever the order in which they were appended, and whatever the
\* deduplication's map iteration and sort do, there is one sequence the
\* report can carry, also when entries carry equal timestamps.
C35_ReportIsDeterministic ==
    Cardinality(ReportsOf(missingFiles)) = 1

\* with pairwise different timestamps there is one sequence
DeterministicForDistinctStamps ==
    ~SameStamp(missingFiles) => Cardinality(ReportsOf(missingFiles)) = 1

\* C35: a report was built from two raw entries of different keys and equal
\* timestamps, and the deduplication may return them in either order.
C35_Witness ==
    /\ report.built
    /\ Len(missingFiles) = 2
    /\ DedupKey(missingFiles[1]) # DedupKey(missingFiles[2])
    /\ missingFiles[1].processedAt = missingFiles[2].processedAt
    /\ <<missingFiles[1], missingFiles[2]>> \in deduplicateMissingFiles(missingFiles)
    /\ <<missingFiles[2], missingFiles[1]>> \in deduplicateMissingFiles(missingFiles)

\* C35: two raw entries of one key, of the same kind of file-record ID and
\* of equal timestamps: the one appended first is kept, so the report
\* depends on the order of appending.
C35_WitnessKept ==
    /\ report.built
    /\ Len(missingFiles) = 2
    /\ DedupKey(missingFiles[1]) = DedupKey(missingFiles[2])
    /\ missingFiles[1] # missingFiles[2]
    /\ missingFiles[1].processedAt = missingFiles[2].processedAt
    /\ deduplicateMissingFiles(missingFiles) = {<<missingFiles[1]>>}
    /\ deduplicateMissingFiles(<<missingFiles[2], missingFiles[1]>>)
          = {<<missingFiles[2]>>}

(***************************************************************************)
(* The order of the counters: C36.                                         *)
(***************************************************************************)
\* deletedRecords <= missingFiles <= totalItemsChecked, nothing negative
Ordered(st) ==
    /\ 0 <= st.deleted
    /\ st.deleted <= st.missing
    /\ st.missing <= st.checked
    /\ 0 <= st.errors

\* C36: the stats of every returned result satisfy deletedRecords <=
\* missingFiles <= totalItemsChecked with all four counters non-negative;
\* so do the stats every item worker sends, the counters of the symlink
\* recovery and the aggregate at every moment of the run.
C36_CountersOrdered ==
    /\ ReturnedAResult => Ordered(ret.stats)
    /\ Ordered(stats)
    /\ Ordered(sym.stats)
    /\ \A i \in Items : Ordered(itemResult[i].stats) /\ Ordered(itemStats[i])
    /\ \A p \in DOMAIN resultsChan : Ordered(resultsChan[p].stats)

\* C36: a returned result in which the three counters differ: a record was
\* deleted, another file is missing with its record left, a third is there.
C36_Witness ==
    /\ ReturnedAResult
    /\ 0 < ret.stats.deleted
    /\ ret.stats.deleted < ret.stats.missing
    /\ ret.stats.missing < ret.stats.checked

(***************************************************************************)
(* Deleted records and delete calls: C37.                                  *)
(***************************************************************************)
\* the backend delete calls of the run that succeeded, that failed
SuccessfulDeletes == {c \in log : c.op \in DeleteOps /\ c.ok}
FailedDeletes == {c \in log : c.op \in DeleteOps /\ ~c.ok}

\* C37: the deletedRecords of a returned result is never larger than the
\* number of successful backend delete calls of the run, and it is that
\* number whenever the run returns with a nil error.
C37_DeletedCountsSuccessfulDeletes ==
    ReturnedAResult =>
        /\ ret.stats.deleted <= Cardinality(SuccessfulDeletes)
        /\ ret.err = "nil" => ret.stats.deleted = Cardinality(SuccessfulDeletes)

\* C37: a run returned with a nil error after one delete call succeeded and
\* another one failed; one record is counted as deleted.
C37_Witness ==
    /\ ReturnedAResult
    /\ ret.err = "nil"
    /\ Cardinality(SuccessfulDeletes) = 1
    /\ FailedDeletes # {}
    /\ ret.stats.deleted = 1

\* a cancelled run returned fewer deleted records than delete calls
\* succeeded: a worker already past the cancellation check went on
C37_WitnessCancelled ==
    /\ ReturnedAResult
    /\ ret.err = Canceled
    /\ ret.stats.deleted < Cardinality(SuccessfulDeletes)

(***************************************************************************)
(* Registry, report and stats of a first run: C38.                         *)
(***************************************************************************)
\* the reports s.buildReport() may put into the result returned now
ReportsNow == {buildReport(d) : d \in deduplicateMissingFiles(missingFiles)}

\* C38: when the first run of a service instance returns with a nil error,
\* the registry holds as many raw entries as the returned stats count
\* missing files, and the report of the result has totalMissing equal to
\* the number of its entries and not larger than stats.missingFiles.
C38_RegistryMatchesStats ==
    (ReturnedAResult /\ ret.err = "nil") =>
        /\ Len(missingFiles) = ret.stats.missing
        /\ \A r \in ReportsNow :
              /\ r.totalMissing = Len(r.missingFiles)
              /\ r.totalMissing <= ret.stats.missing

\* C38: a first run returned with a nil error and two missing files, whose
\* two raw entries share a key, so that the report holds one entry.
C38_Witness ==
    /\ ReturnedAResult
    /\ ret.err = "nil"
    /\ ret.stats.missing = 2
    /\ Len(missingFiles) = 2
    /\ \E r \in ReportsNow : r.totalMissing = 1

(***************************************************************************)
(* The registry across the runs of one instance: C39, under SpecRerun.     *)
(***************************************************************************)
\* every step leaves the entries recorded so far in place, in their order;
\* the start of a further run leaves the registry as it is
RegistryOnlyGrows ==
    /\ Len(missingFiles) <= Len(missingFiles')
    /\ SubSeq(missingFiles', 1, Len(missingFiles)) = missingFiles
    /\ Len(earlier') > Len(earlier) => missingFiles' = missingFiles

\* both runs returned a result with a nil error
SecondRunReturned ==
    /\ Len(earlier) = 1
    /\ ~earlier[1].nilResult /\ earlier[1].err = "nil"
    /\ ReturnedAResult /\ ret.err = "nil"

\* C39: no step removes or resets an entry of the registry, and the start
\* of a second run on the same instance leaves it as the first run left it:
\* when the second run returns, the registry its report is built from holds
\* the entries of both runs, as many as the two runs counted missing files,
\* and the report is not larger than that.
C39_RegistryNeverCleared ==
    /\ [][RegistryOnlyGrows]_vars
    /\ [](SecondRunReturned =>
            /\ Len(missingFiles) = earlier[1].stats.missing + ret.stats.missing
            /\ \A r \in ReportsNow :
                  /\ r.totalMissing <= Len(missingFiles)
                  /\ \A p \in DOMAIN r.missingFiles :
                        \E h \in DOMAIN missingFiles :
                            r.missingFiles[p] = missingFiles[h])

\* C39: the first run recorded a missing file and deleted its record, the
\* second run found nothing missing, and the report of the second run lists
\* the entry of the first run.
C39_Witness ==
    /\ SecondRunReturned
    /\ ~dryRun
    /\ earlier[1].stats.deleted = 1
    /\ earlier[1].stats.missing = 1
    /\ ret.stats.missing = 0
    /\ Len(missingFiles) = 1
    /\ \A r \in ReportsNow : r.missingFiles = <<missingFiles[1]>>

\* two dry runs recorded the same missing file, one raw entry each
C39_WitnessDryRuns ==
    /\ SecondRunReturned
    /\ dryRun
    /\ earlier[1].stats.missing = 1
    /\ ret.stats.missing = 1
    /\ Len(missingFiles) = 2
    /\ \A r \in ReportsNow : r.totalMissing = 1

(***************************************************************************)
(* Add calls per external ID: C40.                                         *)
(***************************************************************************)
\* the backend of the claim: no collection query fails for an ID for which
\* an add call of an earlier symlink has succeeded
QueryFindsAdded ==
    \A c \in log :
        (c.w = 0 /\ c.op = "GetByExternalID" /\ ~c.ok) =>
            ~\E a \in log : /\ a.w = 0 /\ a.op = "Add" /\ a.ok
                            /\ a.e < c.e /\ a.arg = c.arg

AddCallsFor(id) == {c \in DOMAIN addCalls : addCalls[c].id = id}
AddSucceeded(c) == SymCall("Add", addCalls[c].link, TRUE)

\* C40, as stated: with such a backend add is invoked at most once for an
\* external ID within one run, also when several broken symlinks carry the
\* same tag.
C40_AddInvokedOncePerID ==
    QueryFindsAdded =>
        \A c, d \in DOMAIN addCalls : addCalls[c].id = addCalls[d].id => c = d

\* C40, amended: with such a backend at most one add call per external ID
\* succeeds within one run; add is invoked again for an ID, for a later
\* symlink with the same tag, only when every earlier add call for that ID
\* has failed, and never after one that succeeded.
C40_AddSucceedsOncePerID ==
    QueryFindsAdded =>
        \A c, d \in DOMAIN addCalls :
            (c < d /\ addCalls[c].id = addCalls[d].id) =>
                /\ ~AddSucceeded(c)
                /\ addCalls[c].link < addCalls[d].link

\* C40: two broken symlinks carry the same tag; the add for the first one
\* succeeded, the query for the second one found the entry, and the run
\* returned with one add call.
C40_Witness ==
    /\ ret.returned
    /\ Len(sym.found) = 2
    /\ IDOfLink(1) = IDOfLink(2)
    /\ SymCall("Add", 1, TRUE)
    /\ SymCall("GetByExternalID", 2, TRUE)
    /\ Len(addCalls) = 1
    /\ QueryFindsAdded

\* the add for the first of two symlinks with the same tag failed, and add
\* was invoked again for the second one
C40_WitnessRetried ==
    /\ ret.returned
    /\ Len(sym.found) = 2
    /\ IDOfLink(1) = IDOfLink(2)
    /\ SymCall("Add", 1, FALSE)
    /\ SymCall("Add", 2, TRUE)
    /\ Len(addCalls) = 2
    /\ QueryFindsAdded

====
